---------------------------- MODULE Spec2Model ----------------------------
(***************************************************************************)
(* A model of the TDX market-data client (tdx-rust): the frame layer       *)
(* (protocol/frame.rs), the byte codec helpers (protocol/codec.rs), the    *)
(* message decoders and the symbol check (protocol/messages.rs) and the    *)
(* connection layer (client.rs): handshake, correlation ids, the stream    *)
(* lock and the timed response read.                                       *)
(*                                                                         *)
(* Specifications of the pure functions, applied to inputs drawn in Init:  *)
(*   FrameSpec   the frame functions and the varint codec                  *)
(*   MessageSpec the response decoders and the request built for a symbol  *)
(* of the connection:                                                      *)
(*   Spec       one Client shared by concurrent callers, with the server   *)
(*              and the network as the environment                         *)
(*   FairSpec   Spec with the fairness the tokio runtime and the passage   *)
(*              of time give the client's own steps                        *)
(*   LateSpec   the Client after its handshake, with a server that may     *)
(*              take a request long before it answers it                   *)
(* and of the helpers built on the client:                                 *)
(*   BatchSpec  one batched fetch (get_*_all_from, get_kline_all_util)     *)
(*   MarketSpec one call of get_bj_* or get_all_* over the three exchanges *)
(*   DialSpec   one call of dial_hosts_range or of fast_hosts (dial.rs)    *)
(***************************************************************************)
EXTENDS Integers, Sequences, FiniteSets, TLC

VARIABLES
    \* ---- FrameSpec: a pure function applied to an input
    op,         \* the function applied so far ("init" before any)
    arg,        \* the input, a tagged record
    ret,        \* what the function returned
    \* ---- Spec: the client and its environment
    msg_id,     \* Client.msg_id, the AtomicU32 counter
    lock,       \* holder of Client.stream's Mutex (NoProc when free)
    pc,         \* where each task is in connect / send_frame
    kind,       \* what each caller last ran: "api" (get_count) or "raw" (send_frame)
    req,        \* the RequestFrame each task is sending
    sent,       \* the bytes the task's current call wrote to the stream
    rbuf,       \* bytes read_exact has taken off the stream for the current read
    elapsed,    \* the timer of the current read's time::timeout has run out
    result,     \* what the finished call returned
    wire,       \* every request frame written to the stream, in order (bytes)
    srv_read,   \* how many of them the server has taken off its socket
    inbox,      \* bytes the server has sent that no read has taken yet
    srv_due,    \* bytes of a response the server has started and not finished
    closed,     \* the server has closed the connection
    faults,     \* departures of the server from the protocol so far (saturating)
    solo,       \* no call has yet started while another was in flight
    calls,      \* number of calls started so far
    \* ---- BatchSpec: one batched-fetch call over a working connection
    fetch,      \* the call: its arguments, its loop's locals, its requests, its result
    \* ---- DialSpec: the dial helpers
    dial,       \* dial_hosts_range: the hosts, the loop's position, the attempts made
    probe       \* fast_hosts: the spawned probes, their outcomes, the results gathered

fvars == <<op, arg, ret>>
cvars == <<msg_id, lock, pc, kind, req, sent, rbuf, elapsed, result, wire,
           srv_read, inbox, srv_due, closed, faults, solo, calls>>
lvars == <<fetch, dial, probe>>
vars == <<op, arg, ret, msg_id, lock, pc, kind, req, sent, rbuf, elapsed,
          result, wire, srv_read, inbox, srv_due, closed, faults, solo,
          calls, fetch, dial, probe>>

-----------------------------------------------------------------------------
(* Bounds of the model *)

\* longest payload of the small frames drawn as inputs
MaxPayload == 2

\* calls the callers start on one connection
MaxCalls == 2

\* request frames the socket buffers absorb while the server reads none
SendWindow == 1

\* departures of the server from "answer each request at once, whole and
\* truthfully" that are told apart (a bad reply, a stalled payload, a close)
MaxFaults == 1

\* the tasks that share the Client; task 0 is the one running Client::connect
Callers == {1, 2}

Procs == {0} \cup Callers

NoProc == 99

-----------------------------------------------------------------------------
(* protocol/constants.rs *)

PREFIX == 12

U16 == 65536

\* A u32 is kept as its two 16-bit halves <<high, low>>, so that every value
\* of the type (and its wrap-around) stays inside the checker's integers.
U32(hi, lo) == <<hi, lo>>

\* 0xB1CB7400
PREFIX_RESP == U32(45515, 29696)

\* enum MessageType with its #[repr(u16)] discriminants
MessageType ==
    [ Connect |-> 13, Heart |-> 4, Gbbq |-> 15, Count |-> 1102, Code |-> 1104,
      Quote |-> 1342, Minute |-> 1309, CallAuction |-> 1386,
      MinuteTrade |-> 4037, HistoryMinute |-> 4020,
      HistoryMinuteTrade |-> 4021, Kline |-> 1325 ]

MessageTypeNames == DOMAIN MessageType

as_u16(t) == MessageType[t]

None == "None"

from_u16(value) ==
    IF value = 13 THEN "Connect"
    ELSE IF value = 4 THEN "Heart"
    ELSE IF value = 15 THEN "Gbbq"
    ELSE IF value = 1102 THEN "Count"
    ELSE IF value = 1104 THEN "Code"
    ELSE IF value = 1342 THEN "Quote"
    ELSE IF value = 1309 THEN "Minute"
    ELSE IF value = 1386 THEN "CallAuction"
    ELSE IF value = 4037 THEN "MinuteTrade"
    ELSE IF value = 4020 THEN "HistoryMinute"
    ELSE IF value = 4021 THEN "HistoryMinuteTrade"
    ELSE IF value = 1325 THEN "Kline"
    ELSE None

\* Control::Control01.as_u8()
Control01 == 1

-----------------------------------------------------------------------------
(* protocol/codec.rs: fixed-width little-endian helpers *)

bytes_to_u16_le(bytes) ==
    IF Len(bytes) < 2 THEN 0 ELSE bytes[1] + 256 * bytes[2]

bytes_to_u32_le(bytes) ==
    IF Len(bytes) < 4 THEN U32(0, 0)
    ELSE U32(bytes[3] + 256 * bytes[4], bytes[1] + 256 * bytes[2])

u16_to_bytes_le(value) == << value % 256, (value \div 256) % 256 >>

u32_to_bytes_le(value) ==
    << value[2] % 256, (value[2] \div 256) % 256,
       value[1] % 256, (value[1] \div 256) % 256 >>

\* u32::from_be_bytes
from_be_bytes(b) == U32(256 * b[1] + b[2], 256 * b[3] + b[4])

-----------------------------------------------------------------------------
(* protocol/codec.rs: the variable-length signed integer *)

I32Max == 2147483647

I32Min == -I32Max - 1

RECURSIVE Pow2(_)
Pow2(n) == IF n = 0 THEN 1 ELSE 2 * Pow2(n - 1)

\* the builds of the crate: with overflow checks (debug) and without (release)
Builds == {"debug", "release"}

Panic(why) == [panic |-> TRUE, why |-> why]

\* i32::abs: i32::MIN has no positive counterpart
Abs32(value, build) ==
    IF value = I32Min
    THEN IF build = "debug" THEN Panic("abs overflow") ELSE [panic |-> FALSE, val |-> I32Min]
    ELSE [panic |-> FALSE, val |-> IF value < 0 THEN -value ELSE value]

\* unary minus on an i32
Neg32(value, build) ==
    IF value = I32Min
    THEN IF build = "debug" THEN Panic("neg overflow") ELSE [panic |-> FALSE, val |-> I32Min]
    ELSE [panic |-> FALSE, val |-> -value]

\* a + b on i32 values
Add32(a, b, build) ==
    IF b > 0 /\ a > I32Max - b
    THEN IF build = "debug" THEN Panic("add overflow")
         ELSE [panic |-> FALSE, val |-> (a - I32Max - 1) + (b - I32Max - 1)]
    ELSE IF b < 0 /\ a < I32Min - b
    THEN IF build = "debug" THEN Panic("add overflow")
         ELSE [panic |-> FALSE, val |-> (a + I32Max + 1) + (b + I32Max + 1)]
    ELSE [panic |-> FALSE, val |-> a + b]

\* (b as i32) << s for a byte b: the bits shifted past bit 31 are lost, bit 31
\* is the sign; a shift of 32 or more overflows
Shl32(b, s, build) ==
    IF s >= 32 /\ build = "debug" THEN Panic("shl overflow")
    ELSE LET k == s % 32
             low == IF 32 - k >= 8 THEN b ELSE b % Pow2(32 - k)
         IN  [panic |-> FALSE,
              val |-> IF 32 - k <= 8 /\ low >= Pow2(31 - k)
                      THEN (low - Pow2(32 - k)) * Pow2(k)
                      ELSE low * Pow2(k)]

RECURSIVE EncodeVarintRest(_)
\* the `while val > 0` loop of encode_varint
EncodeVarintRest(val) ==
    IF val <= 0 THEN <<>>
    ELSE <<(val % 128) + (IF val \div 128 > 0 THEN 128 ELSE 0)>>
         \o EncodeVarintRest(val \div 128)

\* encode_varint
encode_varint(value, build) ==
    LET a == Abs32(value, build)
    IN  IF a.panic THEN a
        ELSE [panic |-> FALSE,
              bytes |-> <<(a.val % 64) + (IF value < 0 THEN 64 ELSE 0)
                          + (IF a.val \div 64 > 0 THEN 128 ELSE 0)>>
                        \o EncodeVarintRest(a.val \div 64)]

RECURSIVE DecodeVarintLoop(_, _, _, _, _)
\* the `for (i, &byte)` loop of decode_varint from 0-based index i on, with
\* the locals data and consumed
DecodeVarintLoop(bytes, i, data, consumed, build) ==
    IF i >= Len(bytes) THEN [panic |-> FALSE, data |-> data, consumed |-> consumed]
    ELSE
      LET byte == bytes[i + 1]
          term == IF i = 0 THEN [panic |-> FALSE, val |-> byte % 64]
                  ELSE Shl32(byte % 128, 6 + (i - 1) * 7, build)
      IN  IF term.panic THEN term
          ELSE LET sum == Add32(data, term.val, build)
               IN  IF sum.panic THEN sum
                   ELSE IF byte < 128
                        THEN [panic |-> FALSE, data |-> sum.val, consumed |-> consumed + 1]
                        ELSE DecodeVarintLoop(bytes, i + 1, sum.val, consumed + 1, build)

\* decode_varint: (value, bytes consumed)
decode_varint(bytes, build) ==
    IF bytes = <<>> THEN [panic |-> FALSE, val |-> <<0, 0>>]
    ELSE LET r == DecodeVarintLoop(bytes, 0, 0, 0, build)
         IN  IF r.panic THEN r
             ELSE IF (bytes[1] \div 64) % 2 = 1
                  THEN LET n == Neg32(r.data, build)
                       IN  IF n.panic THEN n
                           ELSE [panic |-> FALSE, val |-> <<n.val, r.consumed>>]
                  ELSE [panic |-> FALSE, val |-> <<r.data, r.consumed>>]

-----------------------------------------------------------------------------
(* protocol/frame.rs *)

Ok(v) == [ok |-> TRUE, val |-> v]

Err(e) == [ok |-> FALSE, err |-> e]

\* RequestFrame::new
RequestNew(id, t, data) ==
    [msg_id |-> id, control |-> Control01, msg_type |-> t, data |-> data]

\* the length field without the two msgType bytes
EncodeLengthNoType(data) == Len(data) % U16

\* `(self.data.len() + 2) as u16`
EncodeLength(data) == (Len(data) + 2) % U16

\* RequestFrame::encode
RequestEncode(f) ==
    LET length == EncodeLength(f.data)
    IN  <<PREFIX>> \o u32_to_bytes_le(f.msg_id) \o <<f.control>>
        \o u16_to_bytes_le(length) \o u16_to_bytes_le(length)
        \o u16_to_bytes_le(as_u16(f.msg_type)) \o f.data

\* length1.saturating_sub(2)
SaturatingSub2(n) == IF n < 2 THEN 0 ELSE n - 2

\* RequestFrame::decode with the two length fields not compared
RequestDecodeNoLengthCheck(bytes) ==
    IF Len(bytes) < 12 THEN Err("InsufficientData")
    ELSE IF bytes[1] # PREFIX THEN Err("InvalidPrefix")
    ELSE
      LET id == bytes_to_u32_le(SubSeq(bytes, 2, 5))
          length1 == bytes_to_u16_le(SubSeq(bytes, 7, 8))
          msg_type_val == bytes_to_u16_le(SubSeq(bytes, 11, 12))
          data_length == SaturatingSub2(length1)
      IN  IF Len(bytes) < 12 + data_length THEN Err("InsufficientData")
          ELSE IF from_u16(msg_type_val) = None THEN Err("UnknownMessageType")
          ELSE Ok(RequestNew(id, from_u16(msg_type_val),
                             SubSeq(bytes, 13, 12 + data_length)))

\* RequestFrame::decode
RequestDecode(bytes) ==
    IF Len(bytes) < 12 THEN Err("InsufficientData")
    ELSE IF bytes[1] # PREFIX THEN Err("InvalidPrefix")
    ELSE
      LET id == bytes_to_u32_le(SubSeq(bytes, 2, 5))
          length1 == bytes_to_u16_le(SubSeq(bytes, 7, 8))
          length2 == bytes_to_u16_le(SubSeq(bytes, 9, 10))
          msg_type_val == bytes_to_u16_le(SubSeq(bytes, 11, 12))
          data_length == SaturatingSub2(length1)
      IN  IF length1 # length2 THEN Err("LengthMismatch")
          ELSE IF Len(bytes) < 12 + data_length THEN Err("InsufficientData")
          ELSE IF from_u16(msg_type_val) = None THEN Err("UnknownMessageType")
          ELSE Ok(RequestNew(id, from_u16(msg_type_val),
                             SubSeq(bytes, 13, 12 + data_length)))

\* ResponseFrame::new
ResponseNew(prefix, control, id, unknown, t, zip_length, length, data) ==
    [prefix |-> prefix, control |-> control, msg_id |-> id, unknown |-> unknown,
     msg_type |-> t, zip_length |-> zip_length, length |-> length,
     data |-> data, decompressed |-> FALSE]

\* What ZlibDecoder::read_to_end makes of a payload is the library's business:
\* z is its outcome, [ok |-> FALSE] or [ok |-> TRUE, out |-> bytes].
\* ResponseFrame::decompress without the final length verification
DecompressNoVerify(frame, z) ==
    IF frame.decompressed THEN [ok |-> TRUE, frame |-> frame]
    ELSE IF frame.zip_length # frame.length /\ ~z.ok
         THEN [ok |-> FALSE, err |-> "DecompressionError", frame |-> frame]
    ELSE
      LET f1 == IF frame.zip_length # frame.length
                THEN [frame EXCEPT !.data = z.out] ELSE frame
      IN  [ok |-> TRUE, frame |-> [f1 EXCEPT !.decompressed = TRUE]]

\* ResponseFrame::decompress: the result and the frame as the call leaves it
Decompress(frame, z) ==
    IF frame.decompressed THEN [ok |-> TRUE, frame |-> frame]
    ELSE IF frame.zip_length # frame.length /\ ~z.ok
         THEN [ok |-> FALSE, err |-> "DecompressionError", frame |-> frame]
    ELSE
      LET f1 == IF frame.zip_length # frame.length
                THEN [frame EXCEPT !.data = z.out] ELSE frame
      IN  IF Len(f1.data) # f1.length
          THEN [ok |-> FALSE, err |-> "LengthMismatch", frame |-> f1]
          ELSE [ok |-> TRUE, frame |-> [f1 EXCEPT !.decompressed = TRUE]]

\* ResponseFrame::decode
ResponseDecode(bytes, z) ==
    IF Len(bytes) < 16 THEN Err("InsufficientData")
    ELSE
      LET prefix == from_be_bytes(SubSeq(bytes, 1, 4))
          control == bytes[5]
          id == bytes_to_u32_le(SubSeq(bytes, 6, 9))
          unknown == bytes[10]
          msg_type_val == bytes_to_u16_le(SubSeq(bytes, 11, 12))
          zip_length == bytes_to_u16_le(SubSeq(bytes, 13, 14))
          length == bytes_to_u16_le(SubSeq(bytes, 15, 16))
      IN  IF prefix # PREFIX_RESP THEN Err("InvalidPrefix")
          ELSE IF Len(bytes) < 16 + zip_length THEN Err("InsufficientData")
          ELSE IF from_u16(msg_type_val) = None THEN Err("UnknownMessageType")
          ELSE
            LET d == Decompress(
                       ResponseNew(prefix, control, id, unknown,
                                   from_u16(msg_type_val), zip_length, length,
                                   SubSeq(bytes, 17, 16 + zip_length)), z)
            IN  IF d.ok THEN Ok(d.frame) ELSE Err(d.err)


-----------------------------------------------------------------------------
(* client.rs: Client::read_response_locked, as the bytes of the stream decide it *)

\* ClientError values
CErr(k, e) == [ok |-> FALSE, kind |-> k, err |-> e]

\* lines 95-106: the checks made on the 16 header bytes
ParseHeader(header) ==
    LET prefix == from_be_bytes(SubSeq(header, 1, 4))
        msg_type_val == bytes_to_u16_le(SubSeq(header, 11, 12))
        zip_length == bytes_to_u16_le(SubSeq(header, 13, 14))
        length == bytes_to_u16_le(SubSeq(header, 15, 16))
    IN  IF prefix # PREFIX_RESP THEN CErr("Protocol", "InvalidPrefix")
        ELSE IF from_u16(msg_type_val) = None
             THEN CErr("Protocol", "UnknownMessageType")
        ELSE Ok([prefix |-> prefix, msg_type |-> from_u16(msg_type_val),
                 zip_length |-> zip_length, length |-> length])

\* How many more bytes the two read_exact calls need before the future can
\* finish, given the bytes rb taken so far (0: it finishes now).
ReadNeed(rb) ==
    IF Len(rb) < 16 THEN 16 - Len(rb)
    ELSE LET h == ParseHeader(SubSeq(rb, 1, 16))
         IN  IF ~h.ok THEN 0 ELSE 16 + h.val.zip_length - Len(rb)

\* The value of the inner future once ReadNeed(rb) = 0 (lines 95-128).
ReadResult(rb, z) ==
    LET header == SubSeq(rb, 1, 16)
        h == ParseHeader(header)
    IN  IF ~h.ok THEN h
        ELSE LET d == Decompress(
                        ResponseNew(h.val.prefix, header[5],
                                    bytes_to_u32_le(SubSeq(header, 6, 9)), header[10],
                                    h.val.msg_type, h.val.zip_length, h.val.length,
                                    SubSeq(rb, 17, 16 + h.val.zip_length)), z)
             IN  IF d.ok THEN Ok(d.frame) ELSE CErr("Protocol", d.err)

Min(a, b) == IF a < b THEN a ELSE b

\* The bytes the read takes off a stream holding `stream`: the header, then,
\* when the header passes its checks, the payload it declares.
ReadTake(stream) ==
    LET hd == SubSeq(stream, 1, Min(16, Len(stream)))
    IN  IF ReadNeed(hd) = 0 THEN hd
        ELSE SubSeq(stream, 1, Min(Len(hd) + ReadNeed(hd), Len(stream)))

\* line 133 mapping the elapsed timer to an I/O error instead
TimeoutErrorAsIo == CErr("Io", "TimedOut")

\* line 133: Err(_) => Err(ClientError::Timeout)
TimeoutError == CErr("Timeout", "Elapsed")

\* read_exact on a stream the peer has closed
EofError == CErr("Io", "UnexpectedEof")

\* read_response_locked on a stream that delivers `stream` and then either
\* ends (stop = "eof") or stays silent until the timer fires (stop = "elapsed")
ReadResponseLocked(stream, z, stop) ==
    LET rb == ReadTake(stream)
    IN  IF ReadNeed(rb) = 0 THEN ReadResult(rb, z)
        ELSE IF stop = "eof" THEN EofError ELSE TimeoutError

-----------------------------------------------------------------------------
(* FrameSpec: inputs *)

Bytes(n, b) == [i \in 1..n |-> (b + i) % 256]

SmallPayloads == { Bytes(n, b) : n \in 0..MaxPayload, b \in {0, 254} }

\* payload lengths around the largest the 16-bit length field can declare
BigLens == {U16 - 3, U16 - 2, U16 - 1}

IdSamples == {U32(0, 0), U32(0, 1), U32(1, 2), U32(65535, 65535)}

RequestInputs ==
    { RequestNew(id, t, p) :
        id \in IdSamples, t \in MessageTypeNames, p \in SmallPayloads }
    \cup { RequestNew(U32(0, 1), "Quote", Bytes(n, 0)) : n \in BigLens }

\* recognized and unrecognized 16-bit type values
TypeSamples == {13, 1325, 0, 3328}

\* request-shaped buffers: any header fields, a payload, and maybe cut short
RawRequest(prefix, id, len1, len2, t, payload) ==
    <<prefix>> \o u32_to_bytes_le(id) \o <<Control01>>
    \o u16_to_bytes_le(len1) \o u16_to_bytes_le(len2)
    \o u16_to_bytes_le(t) \o payload

Cut(bytes, c) ==
    IF c = "whole" THEN bytes
    ELSE IF c = "short1" THEN SubSeq(bytes, 1, Len(bytes) - 1)
    ELSE SubSeq(bytes, 1, Min(Len(bytes), 11))

Cuts == {"whole", "short1", "header"}

RequestBuffers ==
    { Cut(RawRequest(prefix, id, len1, len2, t, Bytes(n, 0)), c) :
        prefix \in {PREFIX, 177}, id \in {U32(0, 1), U32(4660, 22136)},
        len1 \in 0..(MaxPayload + 2), len2 \in 2..3,
        t \in TypeSamples, n \in 0..MaxPayload, c \in Cuts }

\* response-shaped buffers
RawResponse(prefix, control, id, t, zip_length, length, payload) ==
    prefix \o <<control>> \o u32_to_bytes_le(id) \o <<0>>
    \o u16_to_bytes_le(t) \o u16_to_bytes_le(zip_length)
    \o u16_to_bytes_le(length) \o payload

GoodPrefix == <<177, 203, 116, 0>>

BadPrefix == <<0, 116, 203, 177>>

ResponseBuffers ==
    { Cut(RawResponse(prefix, 28, id, t, zl, l, Bytes(n, 0)), c) :
        prefix \in {GoodPrefix, BadPrefix}, id \in {U32(0, 1), U32(4660, 22136)},
        t \in TypeSamples, zl \in 0..MaxPayload, l \in 0..MaxPayload,
        n \in 0..MaxPayload, c \in {"whole", "short1"} }

\* what the zlib decoder may make of a payload
InflateOutcomes ==
    {[ok |-> FALSE]} \cup
    { [ok |-> TRUE, out |-> Bytes(n, 100)] : n \in 0..(MaxPayload + 1) }

\* ResponseFrame objects as ResponseFrame::new builds them (the fields are
\* public: data need not be zip_length bytes long)
FrameInputs ==
    { ResponseNew(PREFIX_RESP, 28, U32(0, 1), 0, "Count", zl, l, Bytes(n, 0)) :
        zl \in 0..MaxPayload, l \in 0..(MaxPayload + 1), n \in 0..MaxPayload }

\* i32 values: around every length the encoding takes, and the ends of the type
VarintInputs ==
    { sgn * m : sgn \in {1, -1},
                m \in {0, 1, 63, 64, 8191, 8192, 1048575, 1048576,
                       134217727, 134217728, I32Max} }
    \cup {I32Min}

(* FrameSpec: one function applied per step *)

ClientIdle ==
    /\ msg_id = U32(0, 0) /\ lock = NoProc /\ pc = <<>> /\ kind = <<>>
    /\ req = <<>> /\ sent = <<>> /\ rbuf = <<>> /\ elapsed = <<>>
    /\ result = <<>> /\ wire = <<>> /\ srv_read = 0 /\ inbox = <<>>
    /\ srv_due = <<>> /\ closed = FALSE /\ faults = 0 /\ solo = TRUE
    /\ calls = 0

\* no batched fetch and no dial helper is running
LoopsIdle == fetch = <<>> /\ dial = <<>> /\ probe = <<>>

FrameInit ==
    /\ op = "init"
    /\ ret = <<>>
    /\ \/ \E f \in RequestInputs : arg = [tag |-> "req", req |-> f]
       \/ \E b \in RequestBuffers : arg = [tag |-> "reqbuf", buf |-> b]
       \/ \E b \in ResponseBuffers, z \in InflateOutcomes, s \in {"eof", "elapsed"} :
             arg = [tag |-> "respbuf", buf |-> b, z |-> z, stop |-> s]
       \/ \E f \in FrameInputs, z \in InflateOutcomes :
             arg = [tag |-> "frame", frame |-> f, z |-> z]
       \/ \E v \in VarintInputs, b \in Builds :
             arg = [tag |-> "varint", v |-> v, build |-> b]
    /\ ClientIdle
    /\ LoopsIdle

\* decode(encode(frame))
EncodeDecode ==
    /\ op = "init" /\ arg.tag = "req"
    /\ op' = "EncodeDecode"
    /\ ret' = [bytes |-> RequestEncode(arg.req),
               dec |-> RequestDecode(RequestEncode(arg.req))]
    /\ UNCHANGED <<arg, cvars, lvars>>

DecodeRequest ==
    /\ op = "init" /\ arg.tag = "reqbuf"
    /\ op' = "RequestDecode"
    /\ ret' = RequestDecode(arg.buf)
    /\ UNCHANGED <<arg, cvars, lvars>>

DecodeResponse ==
    /\ op = "init" /\ arg.tag = "respbuf"
    /\ op' = "ResponseDecode"
    /\ ret' = ResponseDecode(arg.buf, arg.z)
    /\ UNCHANGED <<arg, cvars, lvars>>

StreamRead ==
    /\ op = "init" /\ arg.tag = "respbuf"
    /\ op' = "ReadResponseLocked"
    /\ ret' = ReadResponseLocked(arg.buf, arg.z, arg.stop)
    /\ UNCHANGED <<arg, cvars, lvars>>

\* frame.decompress() on a fresh frame
DecompressCall ==
    /\ op = "init" /\ arg.tag = "frame"
    /\ op' = "decompress"
    /\ ret' = Decompress(arg.frame, arg.z)
    /\ UNCHANGED <<arg, cvars, lvars>>

\* frame.decompress() once more on the frame the first call left
DecompressAgain ==
    /\ op = "decompress"
    /\ op' = "decompress2"
    /\ \E z \in InflateOutcomes :
          ret' = [first |-> ret, second |-> Decompress(ret.frame, z)]
    /\ UNCHANGED <<arg, cvars, lvars>>

\* decode_varint(&encode_varint(v))
VarintRoundTrip ==
    /\ op = "init" /\ arg.tag = "varint"
    /\ op' = "VarintRoundTrip"
    /\ LET e == encode_varint(arg.v, arg.build)
       IN  ret' = [enc |-> e,
                   dec |-> IF e.panic THEN e ELSE decode_varint(e.bytes, arg.build)]
    /\ UNCHANGED <<arg, cvars, lvars>>

FrameNext ==
    \/ EncodeDecode
    \/ DecodeRequest
    \/ DecodeResponse
    \/ StreamRead
    \/ DecompressCall
    \/ DecompressAgain
    \/ VarintRoundTrip

FrameSpec == FrameInit /\ [][FrameNext]_vars

-----------------------------------------------------------------------------
(* protocol/messages.rs: the request builders the model's calls use *)

\* Connect::request
ConnectRequest(id) == RequestNew(id, "Connect", <<1>>)

\* Heartbeat::request
HeartbeatRequest(id) == RequestNew(id, "Heart", <<>>)

\* Count::request for Exchange::SZ
CountRequest(id) == RequestNew(id, "Count", <<0, 0, 117, 199, 51, 1>>)

-----------------------------------------------------------------------------
(* client.rs: Client *)

\* u32 wrapping_add(1)
U32Inc(v) ==
    IF v[2] + 1 < U16 THEN U32(v[1], v[2] + 1)
    ELSE U32((v[1] + 1) % U16, 0)

\* next_msg_id handing out the counter without advancing it
NextMsgIdStuck(counter) == [id |-> U32Inc(counter), counter |-> counter]

\* Client::next_msg_id: fetch_add(1, SeqCst) + 1, one atomic step
NextMsgId(counter) == [id |-> U32Inc(counter), counter |-> U32Inc(counter)]

NoResult == [ok |-> FALSE, kind |-> "none", err |-> "none"]

\* send_frame passing on whatever frame was read
SendFrameResultUnchecked(res, id) == res

\* send_frame lines 148-157: `?` on the read, then the msg_id comparison
SendFrameResult(res, id) ==
    IF ~res.ok THEN res
    ELSE IF res.val.msg_id # id THEN CErr("Other", "IdMismatch")
    ELSE res

\* send_connect lines 69-70: the response is dropped, Ok(()) returned
ConnectResult(res) == IF res.ok THEN Ok("Client") ELSE res

\* connect handing out the Client whatever the handshake did
ConnectOutcomeIgnoringError(res) == "ready"

\* connect line 59-60: `client.send_connect().await?; Ok(client)`
ConnectOutcome(res) == IF res.ok THEN "ready" ELSE "failed"

\* the stream mutex taken without waiting for its holder
LockFreeAlways == TRUE

\* tokio::sync::Mutex: lock().await completes only while nobody holds it
LockFree == lock = NoProc

Init ==
    /\ op = "init" /\ arg = <<>> /\ ret = <<>>
    /\ msg_id = U32(0, 0)
    /\ lock = NoProc
    /\ pc = [p \in Procs |-> IF p = 0 THEN "tcp" ELSE "idle"]
    /\ kind = [p \in Procs |-> IF p = 0 THEN "connect" ELSE "none"]
    /\ req = [p \in Procs |-> <<>>]
    /\ sent = [p \in Procs |-> <<>>]
    /\ rbuf = [p \in Procs |-> <<>>]
    /\ elapsed = [p \in Procs |-> FALSE]
    /\ result = [p \in Procs |-> NoResult]
    /\ wire = <<>>
    /\ srv_read = 0
    /\ inbox = <<>>
    /\ srv_due = <<>>
    /\ closed = FALSE
    /\ faults = 0
    /\ solo = TRUE
    /\ calls = 0
    /\ fetch = <<>> /\ dial = <<>> /\ probe = <<>>

Fault == faults' = Min(faults + 1, MaxFaults)

\* connect lines 50-57 and send_connect lines 65-66: the TCP connection is
\* made, the Client built with msg_id 0, and the handshake frame built with
\* the explicit id 1
TcpConnected ==
    /\ pc[0] = "tcp"
    /\ pc' = [pc EXCEPT ![0] = "lock"]
    /\ req' = [req EXCEPT ![0] = ConnectRequest(U32(0, 1))]
    /\ UNCHANGED <<fvars, lvars, msg_id, lock, kind, sent, rbuf, elapsed, result, wire,
                   srv_read, inbox, srv_due, closed, faults, solo, calls>>

\* connect line 50: TcpStream::connect fails
TcpRefused ==
    /\ pc[0] = "tcp"
    /\ pc' = [pc EXCEPT ![0] = "failed"]
    /\ result' = [result EXCEPT ![0] = CErr("Io", "ConnectionRefused")]
    /\ UNCHANGED <<fvars, lvars, msg_id, lock, kind, req, sent, rbuf, elapsed, wire,
                   srv_read, inbox, srv_due, closed, faults, solo, calls>>

\* get_count line 162: the request is built with an id drawn from the counter
ApiCall(c) ==
    /\ pc[0] = "ready" /\ pc[c] = "idle" /\ calls < MaxCalls
    /\ LET n == NextMsgId(msg_id)
       IN  /\ msg_id' = n.counter
           /\ req' = [req EXCEPT ![c] = CountRequest(n.id)]
    /\ pc' = [pc EXCEPT ![c] = "send_frame"]
    /\ kind' = [kind EXCEPT ![c] = "api"]
    /\ calls' = calls + 1
    /\ solo' = (solo /\ \A d \in Callers : pc[d] = "idle")
    /\ UNCHANGED <<fvars, lvars, lock, sent, rbuf, elapsed, result, wire, srv_read,
                   inbox, srv_due, closed, faults>>

\* a caller hands send_frame a frame it built itself
RawCall(c) ==
    /\ pc[0] = "ready" /\ pc[c] = "idle" /\ calls < MaxCalls
    /\ req' = [req EXCEPT ![c] = HeartbeatRequest(U32(0, 0))]
    /\ pc' = [pc EXCEPT ![c] = "send_frame"]
    /\ kind' = [kind EXCEPT ![c] = "raw"]
    /\ calls' = calls + 1
    /\ solo' = (solo /\ \A d \in Callers : pc[d] = "idle")
    /\ UNCHANGED <<fvars, lvars, msg_id, lock, sent, rbuf, elapsed, result, wire,
                   srv_read, inbox, srv_due, closed, faults>>

\* send_frame lines 139-144: draw the id and stamp it on the frame
StampId(c) ==
    /\ pc[c] = "send_frame"
    /\ LET n == NextMsgId(msg_id)
       IN  /\ msg_id' = n.counter
           /\ req' = [req EXCEPT ![c].msg_id = n.id]
    /\ pc' = [pc EXCEPT ![c] = "lock"]
    /\ UNCHANGED <<fvars, lvars, lock, kind, sent, rbuf, elapsed, result, wire,
                   srv_read, inbox, srv_due, closed, faults, solo, calls>>

\* self.stream.lock().await (lines 67 and 145)
Acquire(p) ==
    /\ pc[p] = "lock"
    /\ LockFree
    /\ lock' = p
    /\ pc' = [pc EXCEPT ![p] = "write"]
    /\ UNCHANGED <<fvars, lvars, msg_id, kind, req, sent, rbuf, elapsed, result, wire,
                   srv_read, inbox, srv_due, closed, faults, solo, calls>>

\* a call that keeps the guard when it ends in an error
FinishKeepsLockOnError(p, res) ==
    /\ lock' = IF res.ok THEN NoProc ELSE lock
    /\ IF p = 0
       THEN /\ pc' = [pc EXCEPT ![p] = ConnectOutcome(res)]
            /\ result' = [result EXCEPT ![p] = ConnectResult(res)]
       ELSE /\ pc' = [pc EXCEPT ![p] = "done"]
            /\ result' = [result EXCEPT ![p] = SendFrameResult(res, req[p].msg_id)]

\* how a call ends: the guard is dropped, the result handed to the caller
Finish(p, res) ==
    /\ lock' = NoProc
    /\ IF p = 0
       THEN /\ pc' = [pc EXCEPT ![p] = ConnectOutcome(res)]
            /\ result' = [result EXCEPT ![p] = ConnectResult(res)]
       ELSE /\ pc' = [pc EXCEPT ![p] = "done"]
            /\ result' = [result EXCEPT ![p] = SendFrameResult(res, req[p].msg_id)]

\* write_all_locked completes: the socket takes the whole frame.  While the
\* peer is there and reads nothing, the socket takes only what its buffers
\* hold; nothing bounds the wait (no timeout wraps the write).
Write(p) ==
    /\ pc[p] = "write"
    /\ closed \/ Len(wire) - srv_read < SendWindow
    /\ wire' = Append(wire, RequestEncode(req[p]))
    /\ sent' = [sent EXCEPT ![p] = RequestEncode(req[p])]
    /\ rbuf' = [rbuf EXCEPT ![p] = <<>>]
    /\ elapsed' = [elapsed EXCEPT ![p] = FALSE]
    /\ pc' = [pc EXCEPT ![p] = "read"]
    /\ UNCHANGED <<fvars, lvars, msg_id, lock, kind, req, result, srv_read, inbox,
                   srv_due, closed, faults, solo, calls>>

\* write_all_locked fails: the peer has closed the connection
WriteFail(p) ==
    /\ pc[p] = "write"
    /\ closed
    /\ Finish(p, CErr("Io", "BrokenPipe"))
    /\ UNCHANGED <<fvars, lvars, msg_id, kind, req, sent, rbuf, elapsed, wire,
                   srv_read, inbox, srv_due, closed, faults, solo, calls>>

\* the inflate outcomes that matter for the frame in rb
ZFor(rb) ==
    LET h == ParseHeader(SubSeq(rb, 1, 16))
    IN  IF h.ok /\ h.val.zip_length # h.val.length
        THEN InflateOutcomes ELSE {[ok |-> FALSE]}

\* read_exact takes the bytes that have arrived; when they complete what the
\* future waits for, read_response_locked returns and the call ends
Read(p) ==
    /\ pc[p] = "read"
    /\ inbox # <<>>
    /\ \E n \in {Min(Len(inbox), ReadNeed(rbuf[p]))} :
       \E rb \in {rbuf[p] \o SubSeq(inbox, 1, n)} :
          /\ inbox' = SubSeq(inbox, n + 1, Len(inbox))
          /\ rbuf' = [rbuf EXCEPT ![p] = rb]
          /\ IF ReadNeed(rb) = 0
             THEN \E z \in ZFor(rb) :
                  \E res \in {ReadResult(rb, z)} : Finish(p, res)
             ELSE UNCHANGED <<lock, pc, result>>
    /\ UNCHANGED <<fvars, lvars, msg_id, kind, req, sent, elapsed, wire, srv_read,
                   srv_due, closed, faults, solo, calls>>

\* read_exact meets the end of the stream
ReadEof(p) ==
    /\ pc[p] = "read"
    /\ closed /\ inbox = <<>>
    /\ Finish(p, EofError)
    /\ UNCHANGED <<fvars, lvars, msg_id, kind, req, sent, rbuf, elapsed, wire,
                   srv_read, inbox, srv_due, closed, faults, solo, calls>>

\* time passes while the read is pending: self.timeout runs out
Tick(p) ==
    /\ pc[p] = "read"
    /\ ~elapsed[p]
    /\ elapsed' = [elapsed EXCEPT ![p] = TRUE]
    /\ UNCHANGED <<fvars, lvars, msg_id, lock, pc, kind, req, sent, rbuf, result, wire,
                   srv_read, inbox, srv_due, closed, faults, solo, calls>>

\* time::timeout (lines 131-134): the timer has run out and the future, polled
\* first, is still pending; the bytes it had taken are dropped with it
Timeout(p) ==
    /\ pc[p] = "read"
    /\ elapsed[p]
    /\ inbox = <<>>
    /\ Finish(p, TimeoutError)
    /\ Fault
    /\ UNCHANGED <<fvars, lvars, msg_id, kind, req, sent, rbuf, elapsed, wire,
                   srv_read, inbox, srv_due, closed, solo, calls>>

\* the caller takes the result; it may start another call
Return(c) ==
    /\ pc[c] = "done"
    /\ pc' = [pc EXCEPT ![c] = "idle"]
    /\ result' = [result EXCEPT ![c] = NoResult]
    /\ sent' = [sent EXCEPT ![c] = <<>>]
    /\ rbuf' = [rbuf EXCEPT ![c] = <<>>]
    /\ elapsed' = [elapsed EXCEPT ![c] = FALSE]
    /\ req' = [req EXCEPT ![c] = <<>>]
    /\ kind' = [kind EXCEPT ![c] = "none"]
    /\ UNCHANGED <<fvars, lvars, msg_id, lock, wire, srv_read, inbox, srv_due, closed,
                   faults, solo, calls>>

-----------------------------------------------------------------------------
(* The environment: the server at the other end of the stream *)

ReqId(bytes) == bytes_to_u32_le(SubSeq(bytes, 2, 5))

ReqType(bytes) == bytes_to_u16_le(SubSeq(bytes, 11, 12))

\* the in-order reply: the request's id and type, one byte of payload
EchoReply(r) == RawResponse(GoodPrefix, 28, ReqId(r), ReqType(r), 1, 1, <<7>>)

\* replies a misbehaving or foreign server may send instead
BadReplies(r) ==
    { RawResponse(GoodPrefix, 28, U32Inc(ReqId(r)), ReqType(r), 1, 1, <<7>>),
      RawResponse(BadPrefix, 28, ReqId(r), ReqType(r), 1, 1, <<7>>),
      RawResponse(GoodPrefix, 28, ReqId(r), 0, 1, 1, <<7>>),
      RawResponse(GoodPrefix, 28, ReqId(r), ReqType(r), 1, 2, <<7>>) }

\* the bytes of a reply reach the client whole, or the header first
Deliver(bytes, whole) ==
    IF whole
    THEN /\ inbox' = inbox \o bytes
         /\ srv_due' = <<>>
    ELSE /\ inbox' = inbox \o SubSeq(bytes, 1, 16)
         /\ srv_due' = SubSeq(bytes, 17, Len(bytes))

\* the server takes the next request off the stream and answers it
ServerReply ==
    /\ ~closed /\ srv_due = <<>>
    /\ srv_read < Len(wire)
    /\ srv_read' = srv_read + 1
    /\ Deliver(EchoReply(wire[srv_read + 1]), TRUE)
    /\ UNCHANGED <<fvars, lvars, msg_id, lock, pc, kind, req, sent, rbuf, elapsed,
                   result, wire, closed, faults, solo, calls>>

\* the server answers truthfully, but the payload lags behind the header
ServerSlowReply ==
    /\ ~closed /\ srv_due = <<>>
    /\ srv_read < Len(wire)
    /\ faults < MaxFaults
    /\ srv_read' = srv_read + 1
    /\ Deliver(EchoReply(wire[srv_read + 1]), FALSE)
    /\ Fault
    /\ UNCHANGED <<fvars, lvars, msg_id, lock, pc, kind, req, sent, rbuf, elapsed,
                   result, wire, closed, solo, calls>>

ServerBadReply ==
    /\ ~closed /\ srv_due = <<>>
    /\ srv_read < Len(wire)
    /\ faults < MaxFaults
    /\ srv_read' = srv_read + 1
    /\ \E b \in BadReplies(wire[srv_read + 1]) : Deliver(b, TRUE)
    /\ Fault
    /\ UNCHANGED <<fvars, lvars, msg_id, lock, pc, kind, req, sent, rbuf, elapsed,
                   result, wire, closed, solo, calls>>

\* the rest of a reply sent header first arrives
ServerRest ==
    /\ ~closed /\ srv_due # <<>>
    /\ inbox' = inbox \o srv_due
    /\ srv_due' = <<>>
    /\ UNCHANGED <<fvars, lvars, msg_id, lock, pc, kind, req, sent, rbuf, elapsed,
                   result, wire, srv_read, closed, faults, solo, calls>>

\* the server closes the connection
ServerClose ==
    /\ ~closed
    /\ faults < MaxFaults
    /\ closed' = TRUE
    /\ srv_due' = <<>>
    /\ Fault
    /\ UNCHANGED <<fvars, lvars, msg_id, lock, pc, kind, req, sent, rbuf, elapsed,
                   result, wire, srv_read, inbox, solo, calls>>

ClientStep(p) ==
    \/ Acquire(p)
    \/ Write(p)
    \/ WriteFail(p)
    \/ Read(p)
    \/ ReadEof(p)
    \/ Tick(p)
    \/ Timeout(p)

CallerStep(c) ==
    \/ ApiCall(c)
    \/ RawCall(c)
    \/ StampId(c)
    \/ Return(c)

Next ==
    \/ TcpConnected
    \/ TcpRefused
    \/ \E p \in Procs : ClientStep(p)
    \/ \E c \in Callers : CallerStep(c)
    \/ ServerReply
    \/ ServerSlowReply
    \/ ServerBadReply
    \/ ServerRest
    \/ ServerClose

Spec == Init /\ [][Next]_vars

\* The runtime polls every task that can make progress, and time passes: a
\* step of a call in flight is taken once one stays possible.  Callers are
\* not obliged to start calls, and nothing is assumed of the server.
Progress ==
    \E p \in Procs :
       \/ Acquire(p) \/ Write(p) \/ WriteFail(p)
       \/ Read(p) \/ ReadEof(p) \/ Tick(p) \/ Timeout(p)

FairSpec == Spec /\ WF_vars(Progress)

(* LateSpec: the Client after its handshake, with a server that answers in
   order and truthfully, each response whole, but as late as it likes *)

\* the state Client::connect leaves: the handshake written and answered
Connected0 ==
    /\ op = "init" /\ arg = <<>> /\ ret = <<>>
    /\ msg_id = U32(0, 0)
    /\ lock = NoProc
    /\ pc = [p \in Procs |-> IF p = 0 THEN "ready" ELSE "idle"]
    /\ kind = [p \in Procs |-> IF p = 0 THEN "connect" ELSE "none"]
    /\ req = [p \in Procs |-> IF p = 0 THEN ConnectRequest(U32(0, 1)) ELSE <<>>]
    /\ sent = [p \in Procs |->
                 IF p = 0 THEN RequestEncode(ConnectRequest(U32(0, 1))) ELSE <<>>]
    /\ rbuf = [p \in Procs |->
                 IF p = 0 THEN EchoReply(RequestEncode(ConnectRequest(U32(0, 1))))
                 ELSE <<>>]
    /\ elapsed = [p \in Procs |-> FALSE]
    /\ result = [p \in Procs |-> IF p = 0 THEN Ok("Client") ELSE NoResult]
    /\ wire = <<RequestEncode(ConnectRequest(U32(0, 1)))>>
    /\ srv_read = 1
    /\ inbox = <<>>
    /\ srv_due = <<>>
    /\ closed = FALSE
    /\ faults = 0
    /\ solo = TRUE
    /\ calls = 0
    /\ fetch = <<>> /\ dial = <<>> /\ probe = <<>>

\* the server takes the next request off the stream; its answer is not sent
\* yet
ServerLate ==
    /\ ~closed
    /\ srv_read < Len(wire)
    /\ srv_read' = srv_read + 1
    /\ srv_due' = srv_due \o EchoReply(wire[srv_read + 1])
    /\ UNCHANGED <<fvars, lvars, msg_id, lock, pc, kind, req, sent, rbuf, elapsed,
                   result, wire, inbox, closed, faults, solo, calls>>

LateNext ==
    \/ \E p \in Callers : Acquire(p)
    \/ \E p \in Callers : Write(p)
    \/ \E p \in Callers : Read(p)
    \/ \E p \in Callers : Tick(p)
    \/ \E p \in Callers : Timeout(p)
    \/ \E c \in Callers : ApiCall(c)
    \/ \E c \in Callers : RawCall(c)
    \/ \E c \in Callers : StampId(c)
    \/ \E c \in Callers : Return(c)
    \/ ServerLate
    \/ ServerRest

LateSpec == Connected0 /\ [][LateNext]_vars

-----------------------------------------------------------------------------
(* client.rs: the batched-fetch loops *)

\* full batches a short series holds
MaxFullBatches == 2

\* requests one fetch is followed for (a loop whose offset has wrapped need
\* never end)
MaxRequests == 165

\* the batch_size of each loop
CodeBatch == 1000
KlineBatch == 800
TradeBatch == 1800
HistoryTradeBatch == 2000

\* get_code_all_from, get_kline_all_from, get_index_all_from,
\* get_trade_all_from, get_history_trade_day_from, get_kline_all_util
FetchLoops == {"code", "kline", "index", "trade", "history_trade", "kline_util"}

batch_size(fn) ==
    IF fn = "code" THEN CodeBatch
    ELSE IF fn = "trade" THEN TradeBatch
    ELSE IF fn = "history_trade" THEN HistoryTradeBatch
    ELSE KlineBatch

\* a + b on u16 values
Add16(a, b, build) ==
    IF a + b >= U16
    THEN IF build = "debug" THEN Panic("add overflow")
         ELSE [panic |-> FALSE, val |-> (a + b) % U16]
    ELSE [panic |-> FALSE, val |-> a + b]

\* The server holds a series of n records; record a is the one a places back
\* from the newest (for the code list: the a-th entry).  A request for `count`
\* records from `start` is answered with the records start .. start+count-1
\* that exist, in the order the server puts them on the wire.  The decoders
\* keep the wire order, and `count` is the number of records decoded.
ServerBatch(server, start, count) ==
    LET k == IF start >= server.n THEN 0
             ELSE IF start + count <= server.n THEN count ELSE server.n - start
    IN  [count |-> k,
         list |-> IF server.order = "oldest_first"
                  THEN [i \in 1..k |-> start + k - i]
                  ELSE [i \in 1..k |-> start + i - 1]]

\* the ways a single get_code / get_kline / get_index / get_trade /
\* get_history_trade call fails
BatchErrors == {"Io", "Timeout", "Protocol", "Message", "Other"}

\* util_fn applied to record a
util_fn(pred, a) == IF pred.all_fail THEN FALSE ELSE a \notin pred.bad

MaxOf(S) == CHOOSE x \in S : \A y \in S : y <= x

\* the scan finding no failing record, whatever the predicate says
CutIndexIgnoringPredicate(pred, list) == 0

\* the backwards scan of get_kline_all_util: 0 when every record passes,
\* else the 1-based position of the last record that fails (cut_index)
CutIndex(pred, list) ==
    LET failing == {i \in 1..Len(list) : ~util_fn(pred, list[i])}
    IN  IF failing = {} THEN 0 ELSE MaxOf(failing)

\* every loop extending its accumulator, as the code loop does
AssembleExtend(fn, acc, batch) == acc \o batch

\* the accumulator after a batch: the code loop extends it, the others put
\* the new batch in front
Assemble(fn, acc, batch) ==
    IF fn = "code" THEN acc \o batch ELSE batch \o acc

\* the end of a fetch
FetchOk(f) == [f EXCEPT !.pc = "done",
                        !.result = [ok |-> TRUE, count |-> f.count, list |-> f.list]]

\* the error of a batch swallowed: what was gathered so far returned as Ok
FetchErrReturnsPartial(f, e) ==
    [f EXCEPT !.pc = "done",
              !.result = [ok |-> TRUE, count |-> f.count, list |-> f.list]]

\* `.await?`: the error of the request is the result of the whole fetch
FetchErr(f, e) == [f EXCEPT !.pc = "done", !.result = [ok |-> FALSE, kind |-> e]]

FetchPanic(f, p) == [f EXCEPT !.pc = "panic", !.result = p]

\* `if resp.count < batch_size { break; } start += batch_size;`
LoopTail(f, resp) ==
    IF resp.count < batch_size(f.fn) THEN FetchOk(f)
    ELSE LET s == Add16(f.start, batch_size(f.fn), f.build)
         IN  IF s.panic THEN FetchPanic(f, s) ELSE [f EXCEPT !.start = s.val]

\* one pass of the body of the five get_*_all_from loops, after the request
\* was answered with resp
LoopBody(f, resp) ==
    LET c == Add16(f.count, resp.count, f.build)
    IN  IF c.panic THEN FetchPanic(f, c)
        ELSE LoopTail([f EXCEPT !.count = c.val,
                                !.list = Assemble(f.fn, f.list, resp.list)], resp)

\* one pass of the body of get_kline_all_util
UtilBody(f, resp) ==
    LET len == Len(resp.list)
        cut_index == CutIndex(f.pred, resp.list)
    IN  IF cut_index = 0
        THEN LET c == Add16(f.count, len % U16, f.build)
             IN  IF c.panic THEN FetchPanic(f, c)
                 ELSE LoopTail([f EXCEPT !.count = c.val,
                                         !.list = resp.list \o f.list], resp)
        ELSE LET valid_part == SubSeq(resp.list, cut_index + 1, len)
                 c == Add16(f.count, Len(valid_part) % U16, f.build)
             IN  IF c.panic THEN FetchPanic(f, c)
                 ELSE FetchOk([f EXCEPT !.count = c.val,
                                        !.list = valid_part \o f.list])

(* BatchSpec: one fetch, from its call to its return *)

NoPred == [all_fail |-> FALSE, bad |-> {}]

\* predicates handed to get_kline_all_util: false for every record, true for
\* every record, false on a few records of the first two batches
UtilPreds ==
    {[all_fail |-> TRUE, bad |-> {}]} \cup
    { [all_fail |-> FALSE, bad |-> S] :
        S \in { {}, {0}, {1}, {KlineBatch - 1}, {KlineBatch}, {0, 2},
                {1, KlineBatch + 1}, {KlineBatch - 2, KlineBatch + 2} } }

\* series lengths around the multiples of the batch size b
ShortSeries(b) == { k * b + d : k \in 0..MaxFullBatches, d \in {0, 1, b - 1} }

Orders == {"oldest_first", "newest_first"}

\* fetches of short series, from the start and from inside the series
ShortFetches ==
    { [fn |-> fn, from |-> from, build |-> b, pred |-> NoPred,
       server |-> [n |-> n, order |-> o]] :
        fn \in FetchLoops \ {"kline_util"}, from \in {0, 1}, b \in Builds,
        n \in UNION { ShortSeries(batch_size(g)) : g \in FetchLoops }, o \in Orders }

UtilFetches ==
    { [fn |-> "kline_util", from |-> 0, build |-> b, pred |-> p,
       server |-> [n |-> n, order |-> o]] :
        b \in Builds, p \in UtilPreds, n \in ShortSeries(KlineBatch), o \in Orders }

\* the shortest series whose fetch from offset 0 overflows the 16-bit count
\* with a full batch: the first multiple of b that is 65536 or more
LongSeries(b) == ((U16 + b - 1) \div b) * b

\* fetches that reach the end of the 16-bit start and count fields: such a
\* series fetched from its start, and fetches that start a batch or less
\* before offset 65536
LongFetches ==
    { [fn |-> fn, from |-> 0, build |-> b,
       pred |-> NoPred, server |-> [n |-> LongSeries(batch_size(fn)),
                                    order |-> "oldest_first"]] :
        fn \in FetchLoops, b \in Builds }
    \cup
    { [fn |-> fn, from |-> U16 - batch_size(fn) - d, build |-> b,
       pred |-> NoPred, server |-> [n |-> n, order |-> "oldest_first"]] :
        fn \in {"code", "kline"}, d \in {0, 1}, b \in Builds,
        n \in {U16 - 1, U16 + 1} }

FetchStart(in) ==
    [fn |-> in.fn, from |-> in.from, build |-> in.build, pred |-> in.pred,
     server |-> in.server,
     start |-> in.from, count |-> 0, list |-> <<>>,
     log |-> <<>>, got |-> <<>>, failed |-> "none",
     pc |-> "loop", result |-> <<>>]

BatchInit ==
    /\ op = "init" /\ arg = <<>> /\ ret = <<>>
    /\ ClientIdle
    /\ dial = <<>> /\ probe = <<>>
    /\ \E in \in ShortFetches \cup UtilFetches \cup LongFetches :
          fetch = FetchStart(in)

\* one pass of the loop: the request for batch_size records from `start` is
\* sent and answered, and the body runs on the answer
FetchBatch ==
    /\ fetch.pc = "loop"
    /\ Len(fetch.log) < MaxRequests
    /\ \E resp \in {ServerBatch(fetch.server, fetch.start, batch_size(fetch.fn))} :
       \E f \in {[fetch EXCEPT !.log = Append(fetch.log, fetch.start),
                               !.got = Append(fetch.got, resp.count)]} :
          fetch' = IF fetch.fn = "kline_util" THEN UtilBody(f, resp)
                   ELSE LoopBody(f, resp)
    /\ UNCHANGED <<fvars, cvars, dial, probe>>

\* the request of one pass fails: `.await?` returns the error
FetchBatchFails ==
    /\ fetch.pc = "loop"
    /\ Len(fetch.log) < MaxRequests
    /\ \E e \in BatchErrors :
          fetch' = FetchErr([fetch EXCEPT !.log = Append(fetch.log, fetch.start),
                                          !.got = Append(fetch.got, -1),
                                          !.failed = e], e)
    /\ UNCHANGED <<fvars, cvars, dial, probe>>

BatchNext ==
    \/ FetchBatch
    \/ FetchBatchFails

BatchSpec == BatchInit /\ [][BatchNext]_vars

-----------------------------------------------------------------------------
(* client.rs: the per-market code lists *)

\* `for ex in [Exchange::SZ, Exchange::SH, Exchange::BJ]`
Exchanges == <<"SZ", "SH", "BJ">>

\* the three families of market functions and the filter each one hands to
\* filter_market_codes: is_stock, is_etf, is_index
Kinds == {"stocks", "etfs", "indexes"}

\* the codes of an exchange, each tagged with the one filter that accepts it
\* ("other": none does); is_etf accepts no Beijing code
MarketCodes(ex) ==
    IF ex = "BJ"
    THEN <<[ex |-> ex, cls |-> "stocks"], [ex |-> ex, cls |-> "other"],
           [ex |-> ex, cls |-> "indexes"]>>
    ELSE <<[ex |-> ex, cls |-> "stocks"], [ex |-> ex, cls |-> "etfs"],
           [ex |-> ex, cls |-> "other"], [ex |-> ex, cls |-> "indexes"]>>

\* what get_code_all(exchange) can return: the codes, or the error of a batch
CodeOutcomes(ex) ==
    {[ok |-> TRUE, codes |-> <<>>], [ok |-> TRUE, codes |-> MarketCodes(ex)]}
       \cup { [ok |-> FALSE, kind |-> e] : e \in BatchErrors }

Accepts(family, c) == c.cls = family

\* filter_market_codes, and so get_market_stocks / _etfs / _indexes
filter_market_codes(out, ex, family) ==
    IF out[ex].ok
    THEN [ok |-> TRUE,
          list |-> SelectSeq(out[ex].codes, LAMBDA c : Accepts(family, c))]
    ELSE out[ex]

\* every error of the Beijing fetch taken for a refusal
UnsupportedAlways(e) == "UnsupportedMarket"

\* the closure of map_err in get_bj_*
UnsupportedIfIo(e) == IF e = "Io" THEN "UnsupportedMarket" ELSE e

\* get_bj_stocks, get_bj_etfs, get_bj_indexes
get_bj(out, family) ==
    LET r == filter_market_codes(out, "BJ", family)
    IN  IF r.ok THEN r ELSE [ok |-> FALSE, kind |-> UnsupportedIfIo(r.kind)]

\* the loop of get_all_stocks, get_all_etfs, get_all_indexes from its i-th
\* exchange on, with `all` gathered so far
RECURSIVE GetAllFrom(_, _, _, _)
GetAllFrom(out, family, i, all) ==
    IF i > Len(Exchanges) THEN [ok |-> TRUE, list |-> all]
    ELSE LET r == filter_market_codes(out, Exchanges[i], family)
         IN  IF r.ok THEN GetAllFrom(out, family, i + 1, all \o r.list)
             ELSE IF r.kind = "UnsupportedMarket"
                  THEN GetAllFrom(out, family, i + 1, all)
                  ELSE r

get_all(out, family) == GetAllFrom(out, family, 1, <<>>)

(* MarketSpec: one call of a market function against three exchanges *)

MarketInputs ==
    { [tag |-> "market", kind |-> k,
       out |-> [ex \in {"SZ", "SH", "BJ"} |->
                   IF ex = "SZ" THEN a ELSE IF ex = "SH" THEN b ELSE c]] :
         k \in Kinds, a \in CodeOutcomes("SZ"), b \in CodeOutcomes("SH"),
         c \in CodeOutcomes("BJ") }

MarketInit ==
    /\ op = "init" /\ ret = <<>>
    /\ arg \in MarketInputs
    /\ ClientIdle
    /\ LoopsIdle

GetBj ==
    /\ op = "init" /\ arg.tag = "market"
    /\ op' = "get_bj"
    /\ ret' = get_bj(arg.out, arg.kind)
    /\ UNCHANGED <<arg, cvars, lvars>>

GetAll ==
    /\ op = "init" /\ arg.tag = "market"
    /\ op' = "get_all"
    /\ ret' = get_all(arg.out, arg.kind)
    /\ UNCHANGED <<arg, cvars, lvars>>

MarketNext ==
    \/ GetBj
    \/ GetAll

MarketSpec == MarketInit /\ [][MarketNext]_vars

-----------------------------------------------------------------------------
(* dial.rs: dial_hosts_range and fast_hosts *)

\* longest host list handed to a dial helper, and longest measured duration
MaxHosts == 3
MaxDuration == 2

DEFAULT_HOSTS ==
    <<"124.71.187.122", "122.51.120.217", "111.229.247.189", "124.70.176.52",
      "123.60.186.45", "122.51.232.182", "118.25.98.114", "124.70.199.56",
      "121.36.225.169", "123.60.70.228", "123.60.73.44", "124.70.133.119">>

\* `time::sleep(Duration::from_secs(2))`
PauseSecs == 2

\* `if hosts.is_empty() { DEFAULT_HOSTS } else { hosts }`
EffectiveHosts(hosts) == IF hosts = <<>> THEN DEFAULT_HOSTS ELSE hosts

\* the errors Client::connect ends with: of the TCP connect, of the handshake
DialErrors == {"Io", "Timeout"}

HostNames == {"10.0.0.1", "10.0.0.2:7709"}

\* host lists of up to MaxHosts entries, repeats allowed; the empty list
HostLists ==
    UNION { [1..n -> HostNames] : n \in 0..MaxHosts }

\* dial_hosts_range(hosts) entered: `let mut last_error = None`
DialStart(hosts) ==
    [hosts |-> EffectiveHosts(hosts), i |-> 1, clock |-> 0, log |-> <<>>,
     last_error |-> "none", pc |-> "connect", ret |-> <<>>]

\* an earlier error kept instead of the latest
AfterFailureKeepsFirst(d, e) ==
    [d EXCEPT !.last_error = IF d.last_error = "none" THEN e ELSE d.last_error,
              !.pc = "sleep"]

\* the Err arm up to the sleep: `last_error = Some(e)`
AfterFailure(d, e) == [d EXCEPT !.last_error = e, !.pc = "sleep"]

Attempt(d, outcome) ==
    Append(d.log, [host |-> d.hosts[d.i], at |-> d.clock, outcome |-> outcome])

\* `Ok(client) => return Ok(client)`
DialConnects ==
    /\ op = "dial" /\ dial.pc = "connect" /\ dial.i <= Len(dial.hosts)
    /\ dial' = [dial EXCEPT !.log = Attempt(dial, "ok"),
                            !.pc = "done",
                            !.ret = [ok |-> TRUE, host |-> dial.hosts[dial.i]]]
    /\ UNCHANGED <<fvars, cvars, fetch, probe>>

\* `Err(e) => { last_error = Some(e); ...`
DialConnectFails ==
    /\ op = "dial" /\ dial.pc = "connect" /\ dial.i <= Len(dial.hosts)
    /\ \E e \in DialErrors :
          dial' = AfterFailure([dial EXCEPT !.log = Attempt(dial, e)], e)
    /\ UNCHANGED <<fvars, cvars, fetch, probe>>

\* `time::sleep(Duration::from_secs(2)).await`, then the next host
DialSleeps ==
    /\ op = "dial" /\ dial.pc = "sleep"
    /\ dial' = [dial EXCEPT !.clock = dial.clock + PauseSecs,
                            !.i = dial.i + 1,
                            !.pc = "connect"]
    /\ UNCHANGED <<fvars, cvars, fetch, probe>>

\* the list is used up: `Err(last_error.unwrap_or_else(|| Other(..)))`
DialGivesUp ==
    /\ op = "dial" /\ dial.pc = "connect" /\ dial.i > Len(dial.hosts)
    /\ dial' = [dial EXCEPT
                   !.pc = "done",
                   !.ret = [ok |-> FALSE,
                            kind |-> IF dial.last_error = "none" THEN "Other"
                                     ELSE dial.last_error]]
    /\ UNCHANGED <<fvars, cvars, fetch, probe>>

\* fast_hosts(hosts) after its spawn loop: one probe per host, all running
ProbeStart(hosts) ==
    [hosts |-> EffectiveHosts(hosts),
     out |-> [i \in 1..Len(EffectiveHosts(hosts)) |-> [st |-> "running"]],
     order |-> <<>>, next |-> 1, results |-> <<>>, pc |-> "gather",
     ret |-> <<>>]

\* the results left in the order the handles were awaited
Unsorted(results) == results

\* x put behind every entry whose duration is not longer: what a stable sort
\* does with an entry that comes after those of `sorted`
RECURSIVE InsertByDuration(_, _)
InsertByDuration(sorted, x) ==
    IF sorted = <<>> THEN <<x>>
    ELSE IF sorted[Len(sorted)].duration <= x.duration THEN Append(sorted, x)
    ELSE Append(InsertByDuration(SubSeq(sorted, 1, Len(sorted) - 1), x),
                sorted[Len(sorted)])

RECURSIVE SortFrom(_, _, _)
SortFrom(results, k, sorted) ==
    IF k > Len(results) THEN sorted
    ELSE SortFrom(results, k + 1, InsertByDuration(sorted, results[k]))

\* `results.sort_by(|a, b| a.duration.cmp(&b.duration))`
SortByDuration(results) == SortFrom(results, 1, <<>>)

\* a probe's connect succeeds: `Some(DialResult { host, duration })`
ProbeConnects ==
    /\ op = "fast_hosts" /\ probe.pc = "gather"
    /\ \E i \in DOMAIN probe.out, d \in 0..MaxDuration :
          /\ probe.out[i].st = "running"
          /\ probe' = [probe EXCEPT !.out[i] = [st |-> "some", duration |-> d],
                                    !.order = Append(probe.order, i)]
    /\ UNCHANGED <<fvars, cvars, fetch, dial>>

\* a probe's connect fails: `Err(_) => None`
ProbeFails ==
    /\ op = "fast_hosts" /\ probe.pc = "gather"
    /\ \E i \in DOMAIN probe.out :
          /\ probe.out[i].st = "running"
          /\ probe' = [probe EXCEPT !.out[i] = [st |-> "none"],
                                    !.order = Append(probe.order, i)]
    /\ UNCHANGED <<fvars, cvars, fetch, dial>>

\* `if let Ok(Some(result)) = handle.await { results.push(result); }` for the
\* next handle, once its probe has ended
AwaitHandle ==
    /\ op = "fast_hosts" /\ probe.pc = "gather"
    /\ probe.next <= Len(probe.hosts)
    /\ probe.out[probe.next].st # "running"
    /\ probe' = [probe EXCEPT
                    !.next = probe.next + 1,
                    !.results =
                       IF probe.out[probe.next].st = "some"
                       THEN Append(probe.results,
                                   [host |-> probe.hosts[probe.next],
                                    duration |-> probe.out[probe.next].duration])
                       ELSE probe.results]
    /\ UNCHANGED <<fvars, cvars, fetch, dial>>

\* every handle awaited: sort and return
SortAndReturn ==
    /\ op = "fast_hosts" /\ probe.pc = "gather"
    /\ probe.next > Len(probe.hosts)
    /\ probe' = [probe EXCEPT !.pc = "done",
                              !.ret = SortByDuration(probe.results)]
    /\ UNCHANGED <<fvars, cvars, fetch, dial>>

(* DialSpec: one call of dial_hosts_range or of fast_hosts *)

DialInit ==
    /\ ret = <<>>
    /\ ClientIdle
    /\ fetch = <<>>
    /\ \E hosts \in HostLists :
          /\ arg = hosts
          /\ \/ op = "dial" /\ dial = DialStart(hosts) /\ probe = <<>>
             \/ /\ hosts # <<>>
                /\ op = "fast_hosts" /\ probe = ProbeStart(hosts) /\ dial = <<>>

DialNext ==
    \/ DialConnects
    \/ DialConnectFails
    \/ DialSleeps
    \/ DialGivesUp
    \/ ProbeConnects
    \/ ProbeFails
    \/ AwaitHandle
    \/ SortAndReturn

DialSpec == DialInit /\ [][DialNext]_vars

-----------------------------------------------------------------------------
(* protocol/messages.rs: the response decoders *)

\* the concatenation of a sequence of sequences
RECURSIVE Flatten(_)
Flatten(seqs) == IF seqs = <<>> THEN <<>> ELSE Head(seqs) \o Flatten(Tail(seqs))

\* a decoder's call unwound by a panic instead of returning
Aborts(r) == "panic" \in DOMAIN r

IsOk(r) == "ok" \in DOMAIN r /\ r.ok

\* `as i16` of a u16
AsI16(u) == IF u >= 32768 THEN u - U16 ELSE u

\* unary minus on an i16
Neg16(value, build) ==
    IF value = -32768
    THEN IF build = "debug" THEN Panic("neg overflow")
         ELSE [panic |-> FALSE, val |-> -32768]
    ELSE [panic |-> FALSE, val |-> -value]

\* the (unmatched, flag) pair of one CallAuction record
Unmatched(unmatched_raw, build) ==
    IF unmatched_raw < 0
    THEN LET n == Neg16(unmatched_raw, build)
         IN  IF n.panic THEN n
             ELSE [panic |-> FALSE, unmatched |-> n.val, flag |-> -1]
    ELSE [panic |-> FALSE, unmatched |-> unmatched_raw, flag |-> 1]

CallAuctionRecordLen == 16

RECURSIVE CallAuctionRecords(_, _, _, _, _)
\* the `for _ in 0..count` loop of CallAuctionMsg::decode_response; offset is
\* the 0-based read offset, left the iterations still to run.  The
\* price is kept as the four bytes of its f32 and the time as the hour, minute
\* and second taken from the record (the date is the day of the call)
CallAuctionRecords(data, offset, left, list, build) ==
    IF left = 0 THEN Ok(list)
    ELSE IF offset + CallAuctionRecordLen > Len(data) THEN Err("InsufficientData")
    ELSE
      LET n == bytes_to_u16_le(SubSeq(data, offset + 1, offset + 2))
          um == Unmatched(AsI16(bytes_to_u16_le(SubSeq(data, offset + 11, offset + 12))),
                          build)
      IN  IF um.panic THEN um
          ELSE CallAuctionRecords(data, offset + CallAuctionRecordLen, left - 1,
                 Append(list,
                        [hour |-> n \div 60, minute |-> n % 60,
                         second |-> data[offset + 16],
                         price_bits |-> SubSeq(data, offset + 3, offset + 6),
                         matched |-> bytes_to_u32_le(SubSeq(data, offset + 7, offset + 10)),
                         unmatched |-> um.unmatched, flag |-> um.flag]),
                 build)

\* CallAuctionMsg::decode_response
CallAuctionDecode(data, build) ==
    IF Len(data) < 2 THEN Err("InsufficientData")
    ELSE LET count == bytes_to_u16_le(SubSeq(data, 1, 2))
             r == CallAuctionRecords(data, 2, count, <<>>, build)
         IN  IF Aborts(r) \/ ~r.ok THEN r
             ELSE Ok([count |-> count, list |-> r.val])

\* decode_price: decode_varint widened to the i64 of a Price
decode_price(bytes, build) == decode_varint(bytes, build)

\* &data[offset..] for a 0-based offset
From(data, offset) == SubSeq(data, offset + 1, Len(data))

RECURSIVE DecodePrices(_, _, _, _, _)
\* one decode_price call, whose outcome is r, and the n - 1 that follow it
DecodePricesAfter(data, offset, n, vals, build, r) ==
    IF r.panic THEN r
    ELSE DecodePrices(data, offset + r.val[2], n - 1, Append(vals, r.val[1]), build)

\* n decode_price calls in a row, each from where the one before it stopped:
\* the values read and the offset after them
DecodePrices(data, offset, n, vals, build) ==
    IF n = 0 THEN [panic |-> FALSE, vals |-> vals, offset |-> offset]
    ELSE DecodePricesAfter(data, offset, n, vals, build,
                           decode_price(From(data, offset), build))

\* what the pushed Kline carries as `last`: last_price, read after the
\* assignment `last_price = close`
KlineLast(last_price, close) == close

\* the Kline pushed for the record at `offset` whose differences (open, close,
\* high, low) are diffs and whose volume starts at `after`.  The time, the
\* volume and the amount are kept as the four bytes they are decoded from
KlineRow(data, offset, after, last_price, diffs, is_index) ==
    [last |-> KlineLast(last_price, last_price + diffs[1] + diffs[2]),
     open |-> last_price + diffs[1],
     close |-> last_price + diffs[1] + diffs[2],
     high |-> last_price + diffs[1] + diffs[3],
     low |-> last_price + diffs[1] + diffs[4],
     time_bits |-> SubSeq(data, offset + 1, offset + 4),
     volume_bits |-> SubSeq(data, after + 1, after + 4),
     amount_bits |-> SubSeq(data, after + 5, after + 8),
     up_count |-> IF is_index THEN bytes_to_u16_le(SubSeq(data, after + 9, after + 10))
                  ELSE 0,
     down_count |-> IF is_index THEN bytes_to_u16_le(SubSeq(data, after + 11, after + 12))
                    ELSE 0]

RECURSIVE KlineRecords(_, _, _, _, _, _, _)
\* one iteration of the loop from the volume on, d the outcome of its four
\* decode_price calls, and the iterations that follow it
KlineRecordsAfter(data, offset, left, last_price, list, is_index, build, d) ==
    IF d.panic THEN d
    ELSE IF d.offset + 4 > Len(data) THEN Err("InsufficientData")
    ELSE IF d.offset + 8 > Len(data) THEN Err("InsufficientData")
    ELSE IF is_index /\ d.offset + 12 > Len(data) THEN Err("InsufficientData")
    ELSE KlineRecords(data, d.offset + (IF is_index THEN 12 ELSE 8), left - 1,
                      last_price + d.vals[1] + d.vals[2],
                      Append(list, KlineRow(data, offset, d.offset, last_price,
                                            d.vals, is_index)),
                      is_index, build)

\* the `for _ in 0..count` loop of KlineMsg::decode_response
KlineRecords(data, offset, left, last_price, list, is_index, build) ==
    IF left = 0 THEN Ok(list)
    ELSE IF offset + 4 > Len(data) THEN Err("InsufficientData")
    ELSE KlineRecordsAfter(data, offset, left, last_price, list, is_index, build,
                           DecodePrices(data, offset + 4, 4, <<>>, build))

\* KlineMsg::decode_response
KlineDecode(data, is_index, build) ==
    IF Len(data) < 2 THEN Err("InsufficientData")
    ELSE LET count == bytes_to_u16_le(SubSeq(data, 1, 2))
             r == KlineRecords(data, 2, count, 0, <<>>, is_index, build)
         IN  IF Aborts(r) \/ ~r.ok THEN r
             ELSE Ok([count |-> count, list |-> r.val])

\* total_minutes of sample i (0-based) of a minute line
total_minutes(i) ==
    IF i < 120 THEN 9 * 60 + 30 + (i + 1) ELSE 11 * 60 + (i + 1)

DigitChars == <<"0", "1", "2", "3", "4", "5", "6", "7", "8", "9">>

RECURSIVE Decimal(_)
\* the decimal digits of n >= 0, as a sequence of characters
Decimal(n) ==
    IF n < 10 THEN <<DigitChars[n + 1]>>
    ELSE Append(Decimal(n \div 10), DigitChars[(n % 10) + 1])

\* format!("{:02}", n): at least two digits, zero-padded
Pad2(n) == IF n < 10 THEN <<"0">> \o Decimal(n) ELSE Decimal(n)

\* format!("{:02}:{:02}", total / 60, total % 60), as a sequence of characters
FormatTime(total) == Pad2(total \div 60) \o <<":">> \o Pad2(total % 60)

\* the locals of the loop of MinuteMsg::decode_response before iteration i
MinuteLocals(offset, i, last_price, list) ==
    [panic |-> FALSE, offset |-> offset, i |-> i, last_price |-> last_price, list |-> list]

\* iteration st.i of the loop after its three reads, d their outcome
\* (price_diff, the unknown field, number)
MinuteIterationAfter(st, d) ==
    IF d.panic THEN d
    ELSE MinuteLocals(d.offset, st.i + 1, st.last_price + d.vals[1],
                      Append(st.list,
                             [time |-> FormatTime(total_minutes(st.i)),
                              price |-> (st.last_price + d.vals[1]) * 10,
                              number |-> d.vals[3]]))

\* one iteration of the `for i in 0..count` loop: two decode_price calls and
\* one decode_varint call, with no check of the offset
MinuteIteration(data, st, build) ==
    MinuteIterationAfter(st, DecodePrices(data, st.offset, 3, <<>>, build))

RECURSIVE MinuteLoop(_, _, _, _)
\* the iterations of the loop from st.i up to, and without, `upto`
MinuteLoop(data, st, upto, build) ==
    IF st.panic \/ st.i >= upto THEN st
    ELSE MinuteLoop(data, MinuteIteration(data, st, build), upto, build)

RECURSIVE MinuteRecords(_, _, _, _)
\* the whole loop, evaluated sixteen iterations at a time
MinuteRecords(data, st, count, build) ==
    IF st.panic \/ st.i >= count THEN st
    ELSE MinuteRecords(data, MinuteLoop(data, st, Min(st.i + 16, count), build),
                       count, build)

\* MinuteMsg::decode_response, which HistoryMinuteMsg::decode_response calls
MinuteDecode(data, build) ==
    IF Len(data) < 6 THEN Err("InsufficientData")
    ELSE LET count == bytes_to_u16_le(SubSeq(data, 1, 2))
             r == MinuteRecords(data, MinuteLocals(6, 0, 0, <<>>), count, build)
         IN  IF r.panic THEN r
             ELSE Ok([count |-> count, list |-> r.list])

-----------------------------------------------------------------------------
(* protocol/messages.rs: decode_code, add_prefix and the request they guard.
   A symbol is a sequence of characters, each a one-character string but for
   "euro", which stands for a character of three bytes in UTF-8 *)

\* the UTF-8 bytes of a character
Utf8(ch) ==
    CASE ch = "0" -> <<48>>  [] ch = "1" -> <<49>>  [] ch = "3" -> <<51>>
      [] ch = "4" -> <<52>>  [] ch = "6" -> <<54>>  [] ch = "8" -> <<56>>
      [] ch = "b" -> <<98>>  [] ch = "h" -> <<104>> [] ch = "j" -> <<106>>
      [] ch = "s" -> <<115>> [] ch = "x" -> <<120>> [] ch = "z" -> <<122>>
      [] ch = "B" -> <<66>>  [] ch = "H" -> <<72>>  [] ch = "J" -> <<74>>
      [] ch = "S" -> <<83>>  [] ch = "Z" -> <<90>>
      [] ch = "euro" -> <<226, 130, 172>>

\* str::as_bytes
as_bytes(str) == Flatten([i \in 1..Len(str) |-> Utf8(str[i])])

\* str::len, the length in bytes
ByteLen(str) == Len(as_bytes(str))

\* char::to_lowercase
LowerChar(ch) ==
    CASE ch = "B" -> "b" [] ch = "H" -> "h" [] ch = "J" -> "j"
      [] ch = "S" -> "s" [] ch = "Z" -> "z" [] OTHER -> ch

\* str::to_lowercase
to_lowercase(str) == [i \in 1..Len(str) |-> LowerChar(str[i])]

\* byte offset n falls between two characters of str, or at one of its ends
IsCharBoundary(str, n) == \E k \in 0..Len(str) : ByteLen(SubSeq(str, 1, k)) = n

\* the characters of str before byte offset n, a character boundary
Upto(str, n) ==
    SubSeq(str, 1, CHOOSE k \in 0..Len(str) : ByteLen(SubSeq(str, 1, k)) = n)

\* the characters of str from byte offset n on
After(str, n) == SubSeq(str, Len(Upto(str, n)) + 1, Len(str))

ExchangePrefixes == {<<"s", "h">>, <<"s", "z">>, <<"b", "j">>}

\* Exchange::as_u8 of the exchange a prefix names
ExchangeByte(prefix) ==
    IF prefix = <<"s", "z">> THEN 0 ELSE IF prefix = <<"s", "h">> THEN 1 ELSE 2

\* decode_code: Ok with the exchange byte and the rest of the lower-cased code
decode_code(code) ==
    LET lower == to_lowercase(code)
    IN  IF ByteLen(lower) < 2 THEN Err("InvalidCode")
        ELSE IF ~IsCharBoundary(lower, 2) THEN Panic("not a char boundary")
        ELSE IF Upto(lower, 2) \notin ExchangePrefixes THEN Err("InvalidCode")
        ELSE IF ByteLen(lower) < 8 THEN Err("InvalidCode")
        ELSE Ok(<<ExchangeByte(Upto(lower, 2)), After(lower, 2)>>)

\* str::starts_with for a pattern of one or two characters
starts_with(str, pat) == Len(str) >= Len(pat) /\ SubSeq(str, 1, Len(pat)) = pat

\* add_prefix
add_prefix(code) ==
    LET lower == to_lowercase(code)
    IN  IF \E p \in ExchangePrefixes : starts_with(lower, p) THEN lower
        ELSE IF starts_with(lower, <<"6">>) \/ starts_with(lower, <<"9">>)
        THEN <<"s", "h">> \o lower
        ELSE IF starts_with(lower, <<"0">>) \/ starts_with(lower, <<"3">>)
                \/ starts_with(lower, <<"2">>)
        THEN <<"s", "z">> \o lower
        ELSE IF starts_with(lower, <<"4">>) \/ starts_with(lower, <<"8">>)
        THEN <<"b", "j">> \o lower
        ELSE <<"s", "z">> \o lower

\* the largest count of one KlineMsg request
KlineRequestMax == 800

\* KlineType::Day as u8
KlineDay == 9

\* KlineMsg::request for KlineType::Day
KlineRequest(id, code, start, count) ==
    IF count > KlineRequestMax THEN Err("ParseError")
    ELSE LET c == decode_code(code)
         IN  IF Aborts(c) \/ ~c.ok THEN c
             ELSE Ok(RequestNew(id, "Kline",
                                <<c.val[1], 0>> \o as_bytes(c.val[2]) \o <<KlineDay, 0>>
                                \o <<1, 0>> \o u16_to_bytes_le(start)
                                \o u16_to_bytes_le(count)
                                \o [i \in 1..10 |-> 0]))

\* Client::get_kline up to its send_frame: what the call returns before any
\* I/O, if it does, and the frame it hands to send_frame to be written
get_kline(id, code, start, count) ==
    LET frame == KlineRequest(id, add_prefix(code), start, count)
    IN  IF Aborts(frame) \/ ~frame.ok
        THEN [returned |-> frame, frame |-> <<>>]
        ELSE [returned |-> <<>>, frame |-> RequestEncode(frame.val)]

-----------------------------------------------------------------------------
(* MessageSpec: one decoder applied to one payload, or one request built for
   one symbol *)

\* records of the payloads drawn as inputs
MaxRecords == 2

\* the unmatched_raw fields drawn: zero, the ends of both signs
AuctionRaws == {0, 1, 32767, 32768, 32769, 65535}

\* a CallAuction record at 09:15:30, price 1.0, 100 matched
AuctionRecord(raw) ==
    <<43, 2, 0, 0, 128, 63, 100, 0, 0, 0, raw % 256, raw \div 256, 0, 0, 0, 30>>

\* payloads that declare n records and hold k of them
AuctionInputs ==
    { [tag |-> "call_auction", build |-> b,
       data |-> u16_to_bytes_le(n) \o Flatten([i \in 1..k |-> AuctionRecord(raws[i])])] :
         b \in Builds, n \in 0..MaxRecords,
         k \in 0..MaxRecords, raws \in [1..MaxRecords -> AuctionRaws] }
    \cup { [tag |-> "call_auction", build |-> b, data |-> d] :
             b \in Builds, d \in {<<>>, <<1>>} }

\* bytes dropped from the end of a payload
MaxDrop == 2

DropLast(bytes, c) == SubSeq(bytes, 1, Len(bytes) - c)

\* a varint of six bytes, one more than an i32 needs, that encodes 0
Overlong == <<128, 128, 128, 128, 128, 0>>

\* a varint drawn as input: the value it stands for and its bytes
V(v) == [diff |-> v, bytes |-> encode_varint(v, "release").bytes]

LongZero == [diff |-> 0, bytes |-> Overlong]

\* the (open, close, high, low) differences of the Kline records drawn: one
\* and two bytes long, of both signs, all zero, and one with a long encoding
KlineShapes ==
    { <<V(10), V(-1), V(64), V(-100)>>, <<V(-100), V(64), V(128), V(0)>>,
      <<V(0), V(0), V(0), V(0)>>, <<LongZero, V(1), V(2), V(-1)>> }

\* a Kline record: time, the four differences, volume, amount and, for an
\* index, the up and down counts
KlineRecord(shape, is_index) ==
    <<1, 2, 3, 4>> \o shape[1].bytes \o shape[2].bytes \o shape[3].bytes
    \o shape[4].bytes \o <<5, 6, 7, 8>> \o <<9, 10, 11, 12>>
    \o (IF is_index THEN <<13, 0, 14, 0>> ELSE <<>>)

\* payloads that declare n records and hold the k of `shapes`, less c bytes
KlineInputs ==
    { [tag |-> "kline", build |-> b, is_index |-> x, shapes |-> SubSeq(shapes, 1, k),
       drop |-> c,
       data |-> DropLast(u16_to_bytes_le(n)
                         \o Flatten([i \in 1..k |-> KlineRecord(shapes[i], x)]), c)] :
         b \in Builds, x \in BOOLEAN, n \in 0..MaxRecords, k \in 0..MaxRecords,
         shapes \in [1..MaxRecords -> KlineShapes], c \in 0..MaxDrop }

\* the (price difference, unknown field, number) of the minute samples drawn
MinuteShapes ==
    << <<V(10), V(0), V(5)>>, <<V(-3), V(1), V(100)>>, <<V(64), V(-1), V(0)>>,
       <<LongZero, V(0), V(1)>> >>

\* the shapes the samples of a payload cycle through
MinutePatterns == {<<1, 2, 3>>, <<3, 1, 2>>, <<2, 4, 1>>}

\* the shape of sample i (1-based) of a payload drawn with pattern p
ShapeAt(p, i) == MinuteShapes[p[((i - 1) % Len(p)) + 1]]

\* a minute sample: its three varints
MinuteRecord(shape) == shape[1].bytes \o shape[2].bytes \o shape[3].bytes

\* the bytes of the samples of one turn of pattern p
Turn(p) == Flatten([j \in 1..Len(p) |-> MinuteRecord(MinuteShapes[p[j]])])

\* the bytes of the first k samples of a payload drawn with pattern p
MinuteBody(p, k) ==
    LET turn == Turn(p)
        rest == Flatten([j \in 1..(k % Len(p)) |-> MinuteRecord(MinuteShapes[p[j]])])
        whole == (k \div Len(p)) * Len(turn)
    IN  [j \in 1..(whole + Len(rest)) |->
           IF j <= whole THEN turn[((j - 1) % Len(turn)) + 1] ELSE rest[j - whole]]

\* the sample counts drawn: none, a few, and those about the lunch break,
\* which falls between the samples of index 119 and 120
MinuteCounts == (0..MaxRecords) \cup {119 + j : j \in 0..(MaxRecords + 1)}

\* payloads that declare n samples and hold k of them, less c bytes
MinuteInputs ==
    { [tag |-> "minute", build |-> b, pattern |-> p, held |-> k, drop |-> c,
       data |-> DropLast(u16_to_bytes_le(n) \o <<0, 0, 0, 0>>
                         \o MinuteBody(p, k), c)] :
         b \in Builds, p \in MinutePatterns, n \in MinuteCounts, k \in MinuteCounts,
         c \in 0..MaxDrop }
    \cup { [tag |-> "minute", build |-> b, pattern |-> <<1>>, held |-> 0, drop |-> 0,
            data |-> d] : b \in Builds, d \in {<<>>, <<1, 0>>, <<0, 0, 0, 0, 0>>} }

\* what a symbol drawn as input starts with: the three prefixes, in lower,
\* upper and mixed case, no prefix, a prefix that names no exchange, half a
\* prefix, and a character of three bytes first or second
SymbolHeads ==
    { <<"s", "z">>, <<"s", "h">>, <<"b", "j">>, <<"S", "Z">>, <<"S", "h">>, <<>>,
      <<"x", "x">>, <<"0", "0">>, <<"s">>, <<"s", "euro">>, <<"euro">> }

\* and what follows: six digits, five, seven, none, and five or four digits
\* and a character of three bytes
SymbolTails ==
    { <<"0", "0", "0", "0", "0", "1">>, <<"6", "0", "0", "0", "0", "8">>,
      <<"8", "3", "0", "0", "0", "1">>, <<"0", "0", "0", "0", "1">>,
      <<"0", "0", "0", "0", "0", "1", "1">>, <<>>,
      <<"0", "0", "0", "0", "0", "euro">>, <<"0", "0", "0", "0", "euro">> }

SymbolInputs ==
    { [tag |-> "symbol", code |-> h \o t, start |-> 0, count |-> c] :
        h \in SymbolHeads, t \in SymbolTails,
        c \in {1, KlineRequestMax, KlineRequestMax + 1} }

MessageInputs == AuctionInputs \cup KlineInputs \cup MinuteInputs \cup SymbolInputs

MessageInit ==
    /\ op = "init" /\ ret = <<>>
    /\ arg \in MessageInputs
    /\ ClientIdle
    /\ LoopsIdle

DecodeCallAuction ==
    /\ op = "init" /\ arg.tag = "call_auction"
    /\ op' = "call_auction"
    /\ ret' = CallAuctionDecode(arg.data, arg.build)
    /\ UNCHANGED <<arg, cvars, lvars>>

DecodeKline ==
    /\ op = "init" /\ arg.tag = "kline"
    /\ op' = "kline"
    /\ ret' = KlineDecode(arg.data, arg.is_index, arg.build)
    /\ UNCHANGED <<arg, cvars, lvars>>

DecodeMinute ==
    /\ op = "init" /\ arg.tag = "minute"
    /\ op' = "minute"
    /\ ret' = MinuteDecode(arg.data, arg.build)
    /\ UNCHANGED <<arg, cvars, lvars>>

BuildKlineRequest ==
    /\ op = "init" /\ arg.tag = "symbol"
    /\ op' = "kline_request"
    /\ ret' = KlineRequest(U32(0, 2), arg.code, arg.start, arg.count)
    /\ UNCHANGED <<arg, cvars, lvars>>

GetKline ==
    /\ op = "init" /\ arg.tag = "symbol"
    /\ op' = "get_kline"
    /\ ret' = get_kline(U32(0, 2), arg.code, arg.start, arg.count)
    /\ UNCHANGED <<arg, cvars, lvars>>

MessageNext ==
    \/ DecodeCallAuction
    \/ DecodeKline
    \/ DecodeMinute
    \/ BuildKlineRequest
    \/ GetKline

MessageSpec == MessageInit /\ [][MessageNext]_vars

-----------------------------------------------------------------------------
(* Properties of the frame layer (FrameSpec) *)

\* the little-endian value of two bytes of a buffer, read off directly
Le16(b, i) == b[i] + 256 * b[i + 1]

RecognizedTypes == { MessageType[n] : n \in MessageTypeNames }

\* what RequestFrame::encode must have produced for frame f
EncodedAsSpecified(f, bytes) ==
    /\ Len(bytes) = 12 + Len(f.data)
    /\ bytes[1] = 12
    /\ Le16(bytes, 2) = f.msg_id[2] /\ Le16(bytes, 4) = f.msg_id[1]
    /\ bytes[6] = 1
    /\ Le16(bytes, 7) = Len(f.data) + 2
    /\ Le16(bytes, 9) = Len(f.data) + 2
    /\ Le16(bytes, 11) = MessageType[f.msg_type]

RoundTrips(f, r) ==
    /\ r.dec.ok
    /\ r.dec.val.msg_id = f.msg_id
    /\ r.dec.val.msg_type = f.msg_type
    /\ r.dec.val.data = f.data
    /\ EncodedAsSpecified(f, r.bytes)

\* C8 as stated: for every request frame with a recognized message type and
\* any msg_id and payload, decode(encode(f)) succeeds and yields the same
\* msg_id, msg_type and payload, and the encoding starts with 0x0C, carries the
\* msg_id little-endian, control 0x01 and two length fields, each equal to
\* payload_len + 2.
C8_RoundTripAnyPayload ==
    op = "EncodeDecode" => RoundTrips(arg.req, ret)

\* C8 amended: the same, for every payload of at most 65533 bytes (the largest
\* whose length + 2 fits the 16-bit length field).
C8_RoundTripFittingPayload ==
    (op = "EncodeDecode" /\ Len(arg.req.data) <= 65533) => RoundTrips(arg.req, ret)

\* a largest fitting payload has been encoded and decoded back
C8_Witness ==
    /\ op = "EncodeDecode"
    /\ Len(arg.req.data) = 65533
    /\ ret.dec.ok /\ Len(ret.dec.val.data) = 65533

\* the defects of a request-shaped buffer, read off its bytes
ReqShort(b) == Len(b) < 12
ReqBadPrefix(b) == b[1] # 12
ReqLengthsDiffer(b) == Le16(b, 7) # Le16(b, 9)
ReqTruncated(b) == Le16(b, 7) >= 2 /\ Len(b) < 12 + Le16(b, 7) - 2
ReqUnknownType(b) == Le16(b, 11) \notin RecognizedTypes

\* the defects of a response-shaped buffer
RespShort(b) == Len(b) < 16
RespBadPrefix(b) == SubSeq(b, 1, 4) # <<177, 203, 116, 0>>
RespTruncated(b) == Len(b) < 16 + Le16(b, 13)
RespUnknownType(b) == Le16(b, 11) \notin RecognizedTypes

C9_Request ==
    op = "RequestDecode" =>
      LET b == arg.buf IN
      /\ ret.ok => ~ReqShort(b) /\ ~ReqBadPrefix(b) /\ ~ReqLengthsDiffer(b)
                   /\ ~ReqTruncated(b) /\ ~ReqUnknownType(b)
      /\ ReqShort(b) => ret = Err("InsufficientData")
      /\ (~ReqShort(b) /\ ReqBadPrefix(b)) => ret = Err("InvalidPrefix")
      /\ (~ReqShort(b) /\ ~ReqBadPrefix(b) /\ ReqLengthsDiffer(b))
            => ret = Err("LengthMismatch")
      /\ (~ReqShort(b) /\ ~ReqBadPrefix(b) /\ ~ReqLengthsDiffer(b) /\ ReqTruncated(b))
            => ret = Err("InsufficientData")
      /\ (~ReqShort(b) /\ ~ReqBadPrefix(b) /\ ~ReqLengthsDiffer(b)
          /\ ~ReqTruncated(b) /\ ReqUnknownType(b))
            => ret = Err("UnknownMessageType")

C9_Response ==
    op = "ResponseDecode" =>
      LET b == arg.buf IN
      /\ ret.ok => ~RespShort(b) /\ ~RespBadPrefix(b) /\ ~RespTruncated(b)
                   /\ ~RespUnknownType(b)
      /\ RespShort(b) => ret = Err("InsufficientData")
      /\ (~RespShort(b) /\ RespBadPrefix(b)) => ret = Err("InvalidPrefix")
      /\ (~RespShort(b) /\ ~RespBadPrefix(b) /\ RespTruncated(b))
            => ret = Err("InsufficientData")
      /\ (~RespShort(b) /\ ~RespBadPrefix(b) /\ ~RespTruncated(b) /\ RespUnknownType(b))
            => ret = Err("UnknownMessageType")

\* On the stream a short frame cannot be told from one still arriving: the
\* read ends with the timeout or with the stream's end-of-file error.
C9_Stream ==
    op = "ReadResponseLocked" =>
      LET b == arg.buf IN
      /\ ret.ok => ~RespShort(b) /\ ~RespBadPrefix(b) /\ ~RespTruncated(b)
                   /\ ~RespUnknownType(b)
      /\ RespShort(b) => ~ret.ok /\ ret.kind \in {"Io", "Timeout"}
      /\ (~RespShort(b) /\ RespBadPrefix(b))
            => ret = CErr("Protocol", "InvalidPrefix")
      /\ (~RespShort(b) /\ ~RespBadPrefix(b) /\ RespUnknownType(b))
            => ret = CErr("Protocol", "UnknownMessageType")
      /\ (~RespShort(b) /\ ~RespBadPrefix(b) /\ ~RespUnknownType(b) /\ RespTruncated(b))
            => ~ret.ok /\ ret.kind \in {"Io", "Timeout"}

C10_Decompress ==
    /\ op = "decompress" =>
         LET f == arg.frame
             z == arg.z
         IN
         /\ ret.ok =>
              /\ Len(ret.frame.data) = f.length
              /\ f.zip_length = f.length => ret.frame.data = f.data
              /\ f.zip_length # f.length => z.ok /\ ret.frame.data = z.out
         /\ (f.zip_length # f.length /\ ~z.ok)
              => ~ret.ok /\ ret.err = "DecompressionError"
         /\ (f.zip_length # f.length /\ z.ok /\ Len(z.out) # f.length)
              => ~ret.ok /\ ret.err = "LengthMismatch"
         /\ (f.zip_length = f.length /\ Len(f.data) # f.length)
              => ~ret.ok /\ ret.err = "LengthMismatch"
    /\ (op = "decompress2" /\ ret.first.ok) =>
         /\ ret.second.ok
         /\ ret.second.frame = ret.first.frame

\* a compressed payload has been inflated to the declared length, and the
\* call repeated
C10_Witness ==
    /\ op = "decompress2"
    /\ arg.frame.zip_length # arg.frame.length
    /\ ret.first.ok /\ ret.first.frame.data = arg.z.out
    /\ Len(arg.z.out) > 0

\* the round trip of v: no panic, and (v, number of bytes encoded)
VarintRoundTrips(v, r) ==
    /\ ~r.enc.panic
    /\ ~r.dec.panic
    /\ r.dec.val = <<v, Len(r.enc.bytes)>>

\* C11 as stated: for every i32 v, 0, negative values, i32::MAX and i32::MIN
\* included, decode_varint(encode_varint(v)) returns (v, n), n the number of
\* bytes encode_varint(v) produced.
C11_RoundTripEveryI32 ==
    op = "VarintRoundTrip" => VarintRoundTrips(arg.v, ret)

\* the part of C11 the code gives: every i32 other than i32::MIN round-trips
C11_RoundTripAboveMin ==
    (op = "VarintRoundTrip" /\ arg.v # I32Min) => VarintRoundTrips(arg.v, ret)

-----------------------------------------------------------------------------
(* Properties of the batched-fetch loops (BatchSpec) *)

RECURSIVE SumSeq(_)
SumSeq(q) == IF q = <<>> THEN 0 ELSE q[1] + SumSeq(Tail(q))

\* the five get_*_all_from loops
AllFromLoops == FetchLoops \ {"kline_util"}

\* the k-th request asks for offset from + (k-1)*B
OffsetsInOrder ==
    \A k \in 1..Len(fetch.log) :
       fetch.log[k] = fetch.from + (k - 1) * batch_size(fetch.fn)

\* a batch shorter than B is the last one requested, and ends the loop
ShortBatchIsLast ==
    \A k \in 1..Len(fetch.got) :
       (fetch.got[k] >= 0 /\ fetch.got[k] < batch_size(fetch.fn))
          => (k = Len(fetch.got) /\ fetch.pc # "loop")

\* the loop ends on nothing but a short batch or a failed request
EndsOnShortBatchOnly ==
    fetch.pc # "loop" =>
       /\ fetch.pc = "done"
       /\ fetch.got # <<>>
       /\ fetch.got[Len(fetch.got)] < batch_size(fetch.fn)

\* neither the offset nor the count has left the 16-bit range
WithinU16 ==
    /\ \A k \in 1..Len(fetch.log) :
          fetch.from + k * batch_size(fetch.fn) < U16
    /\ SumSeq([k \in 1..Len(fetch.got) |->
                 IF fetch.got[k] < 0 THEN 0 ELSE fetch.got[k]]) < U16

\* C12 as stated: each get_*_all_from loop requests the offsets from, from+B,
\* from+2B, ... in that order, one request at a time, and stops right after
\* the first batch whose count is less than B, with no further request.
C12_OffsetsInOrderUntilShort ==
    fetch.fn \in AllFromLoops =>
       OffsetsInOrder /\ ShortBatchIsLast /\ EndsOnShortBatchOnly

\* the part of C12 the code gives: the same, while the offsets and the count
\* fit their 16-bit fields
C12_WhileWithinU16 ==
    (fetch.fn \in AllFromLoops /\ WithinU16) =>
       OffsetsInOrder /\ ShortBatchIsLast /\ EndsOnShortBatchOnly

\* the fetch has returned Ok
Returned == fetch.pc = "done" /\ fetch.result.ok

\* record a is the one a places back from the newest: timestamps strictly
\* increase along a list exactly when its entries strictly decrease
OldestToNewest(list) ==
    \A i \in 1..(Len(list) - 1) : list[i] > list[i + 1]

\* C13 as stated: the series get_kline_all_from and get_index_all_from return
\* is ordered oldest to newest, timestamps strictly increasing, whatever the
\* order of the records inside the batches on the wire (newest first).
C13_OldestToNewest ==
    (fetch.fn \in {"kline", "index"} /\ Returned)
       => OldestToNewest(fetch.result.list)

\* what the code gives: the order holds when every batch arrives oldest
\* first, while the offsets and the count fit their 16-bit fields
C13_WhenBatchesOldestFirst ==
    (fetch.fn \in {"kline", "index"} /\ Returned /\ WithinU16
     /\ fetch.server.order = "oldest_first")
       => OldestToNewest(fetch.result.list)

\* the batch the k-th request of the fetch was answered with
BatchOf(k) == ServerBatch(fetch.server, fetch.log[k], batch_size(fetch.fn)).list

Passes(a) == util_fn(fetch.pred, a)

HasFailing(batch) == \E i \in 1..Len(batch) : ~Passes(batch[i])

\* the part of a batch after its last-positioned failing record
PassingSuffix(batch) ==
    LET j == CHOOSE j \in 0..Len(batch) :
                /\ j = 0 \/ ~Passes(batch[j])
                /\ \A i \in (j + 1)..Len(batch) : Passes(batch[i])
    IN  SubSeq(batch, j + 1, Len(batch))

\* batches k, k-1, .., 1 one after the other
RECURSIVE LaterBatchesFirst(_)
LaterBatchesFirst(k) ==
    IF k = 0 THEN <<>> ELSE BatchOf(k) \o LaterBatchesFirst(k - 1)

\* what C14 says is kept of the batches fetched
KeptBars ==
    LET L == Len(fetch.log)
        cut == {k \in 1..L : HasFailing(BatchOf(k))}
    IN  IF cut = {} THEN LaterBatchesFirst(L)
        ELSE LET m == CHOOSE m \in cut : \A k \in cut : m <= k
             IN  PassingSuffix(BatchOf(m)) \o LaterBatchesFirst(m - 1)

UtilKeepsPassingBars ==
    /\ \A i \in 1..Len(fetch.result.list) : Passes(fetch.result.list[i])
    /\ fetch.result.list = KeptBars
    /\ fetch.result.count = Len(fetch.result.list)

\* C14 as stated: every bar get_kline_all_util returns satisfies the
\* predicate: of the first batch with a failing bar only the part after its
\* last-positioned failing bar is kept, the batches fetched before it are
\* kept whole, and the returned count is the number of bars kept.
C14_UtilKeepsPassingBars ==
    (fetch.fn = "kline_util" /\ Returned) => UtilKeepsPassingBars

\* the part of C14 the code gives: the same, while the offsets and the count
\* fit their 16-bit fields
C14_WhileWithinU16 ==
    (fetch.fn = "kline_util" /\ Returned /\ WithinU16) => UtilKeepsPassingBars

\* C15: get_kline_all_util sends no further request once a batch it fetched
\* holds a bar that fails the predicate; when the predicate is false for
\* every bar it sends exactly one request and returns an empty series with
\* count 0.
C15_UtilStopsAtFailingBar ==
    fetch.fn = "kline_util" =>
       /\ \A k \in 1..Len(fetch.log) :
             (fetch.got[k] >= 0 /\ HasFailing(BatchOf(k)))
                => (k = Len(fetch.log) /\ fetch.pc # "loop")
       /\ fetch.pred.all_fail =>
             /\ Len(fetch.log) <= 1
             /\ (fetch.pc # "loop" /\ fetch.got[1] >= 0) =>
                   /\ Returned
                   /\ fetch.result.list = <<>>
                   /\ fetch.result.count = 0

\* a predicate false for every bar met a batch of bars: one request, nothing
\* returned
C15_Witness ==
    /\ fetch.fn = "kline_util" /\ fetch.pred.all_fail
    /\ Returned
    /\ fetch.got = <<KlineBatch>>
    /\ fetch.result.list = <<>> /\ fetch.result.count = 0

\* C16: when a batch request of a fetch loop fails, the fetch returns that
\* error and nothing else: no series, no second attempt at the batch, no
\* further request.
C16_FailedBatchEndsFetch ==
    \A k \in 1..Len(fetch.log) :
       fetch.got[k] < 0 =>
          /\ k = Len(fetch.log)
          /\ fetch.pc = "done"
          /\ fetch.result = [ok |-> FALSE, kind |-> fetch.failed]
          /\ fetch.failed \in BatchErrors

\* a fetch that had gathered a full batch failed on its second request
C16_Witness ==
    /\ Len(fetch.log) = 2
    /\ fetch.got[1] = batch_size(fetch.fn) /\ fetch.got[2] < 0
    /\ fetch.list # <<>>
    /\ fetch.pc = "done" /\ ~fetch.result.ok

\* batches 1, 2, .., k one after the other
RECURSIVE EarlierBatchesFirst(_)
EarlierBatchesFirst(k) ==
    IF k = 0 THEN <<>> ELSE EarlierBatchesFirst(k - 1) \o BatchOf(k)

\* C27: a Kline, Index, Trade or HistoryTrade all-loop that fetched the
\* batches B0 .. Bn in request order returns Bn ++ ... ++ B1 ++ B0, the Code
\* all-loop returns B0 ++ B1 ++ ... ++ Bn, each batch in the order it had.
C27_BatchAssembly ==
    (fetch.fn \in AllFromLoops /\ Returned) =>
       fetch.result.list =
          (IF fetch.fn = "code" THEN EarlierBatchesFirst(Len(fetch.log))
           ELSE LaterBatchesFirst(Len(fetch.log)))

\* a kline fetch of two full batches and a short one, newest first on the
\* wire: the list starts with the short batch and ends with the first
C27_Witness ==
    /\ fetch.fn = "kline" /\ Returned
    /\ fetch.server.order = "newest_first"
    /\ fetch.got = <<KlineBatch, KlineBatch, 1>>
    /\ fetch.result.list[1] = 2 * KlineBatch
    /\ fetch.result.list[2] = KlineBatch
    /\ fetch.result.list[Len(fetch.result.list)] = KlineBatch - 1

\* C28: after a batched-fetch loop returns Ok, the count of the result is
\* the length of the returned list and the sum of the per-batch counts, and
\* the offsets requested never wrap around, for a series of any length.
C28_CountAndOffsetsNeverWrap ==
    /\ \A k \in 1..(Len(fetch.log) - 1) :
          fetch.log[k + 1] = fetch.log[k] + batch_size(fetch.fn)
    /\ Returned =>
          /\ fetch.result.count = Len(fetch.result.list)
          /\ fetch.fn \in AllFromLoops =>
                fetch.result.count = SumSeq(fetch.got)

\* the part of C28 the code gives: the same for a fetch that stays within
\* the 16-bit range of offset and count
C28_WhileWithinU16 ==
    WithinU16 =>
       /\ \A k \in 1..(Len(fetch.log) - 1) :
             fetch.log[k + 1] = fetch.log[k] + batch_size(fetch.fn)
       /\ Returned =>
             /\ fetch.result.count = Len(fetch.result.list)
             /\ fetch.fn \in AllFromLoops =>
                   fetch.result.count = SumSeq(fetch.got)

-----------------------------------------------------------------------------
(* Properties of the market functions (MarketSpec) *)

\* the Beijing fetch failed with an I/O error
BjRefused == ~arg.out["BJ"].ok /\ arg.out["BJ"].kind = "Io"

\* C17: get_all_stocks, get_all_etfs and get_all_indexes skip a market the
\* server does not support: when SZ and SH answer and the Beijing fetch
\* fails with an I/O error, the call returns Ok with the SZ and SH entries.
C17_AllSkipsRefusedBeijing ==
    (/\ op = "get_all"
     /\ arg.out["SZ"].ok /\ arg.out["SH"].ok
     /\ BjRefused)
       => ret = [ok |-> TRUE,
                 list |-> filter_market_codes(arg.out, "SZ", arg.kind).list
                          \o filter_market_codes(arg.out, "SH", arg.kind).list]

\* what does hold: the call returns Ok exactly when all three fetches did,
\* and otherwise the error of the first exchange that failed
C17_AllFailsWithFirstError ==
    op = "get_all" =>
       LET failed == { i \in 1..Len(Exchanges) : ~arg.out[Exchanges[i]].ok }
       IN  IF failed = {} THEN ret.ok
           ELSE ret = arg.out[Exchanges[CHOOSE i \in failed :
                                           \A j \in failed : i <= j]]

\* C18: get_bj_stocks, get_bj_etfs and get_bj_indexes return
\* UnsupportedMarket exactly when the Beijing fetch failed with an I/O
\* error, and pass every other outcome through unchanged.
C18_BjMapsIoOnly ==
    op = "get_bj" =>
       /\ (ret = [ok |-> FALSE, kind |-> "UnsupportedMarket"]) <=> BjRefused
       /\ ~BjRefused => ret = filter_market_codes(arg.out, "BJ", arg.kind)

\* a Beijing fetch that timed out came back as the timeout it was
C18_Witness ==
    /\ op = "get_bj"
    /\ arg.out["BJ"] = [ok |-> FALSE, kind |-> "Timeout"]
    /\ ret = [ok |-> FALSE, kind |-> "Timeout"]

-----------------------------------------------------------------------------
(* Properties of the dial helpers (DialSpec) *)

\* C19: dial_hosts_range attempts the hosts in list order, one at a time,
\* host i+1 only after host i failed and 2 seconds passed; it returns the
\* client of the first host that connects and attempts none after it; when
\* every host fails it returns the error of the last host; an empty list
\* stands for the 12 default hosts.
C19_DialInOrderUntilFirstSuccess ==
    op = "dial" =>
       /\ dial.hosts = (IF arg = <<>> THEN DEFAULT_HOSTS ELSE arg)
       /\ arg = <<>> => Len(dial.hosts) = 12
       /\ Len(dial.log) <= Len(dial.hosts)
       /\ \A k \in 1..Len(dial.log) :
             /\ dial.log[k].host = dial.hosts[k]
             /\ k < Len(dial.log) =>
                   /\ dial.log[k].outcome # "ok"
                   /\ dial.log[k + 1].at >= dial.log[k].at + 2
             /\ dial.log[k].outcome = "ok" =>
                   /\ dial.pc = "done"
                   /\ dial.ret = [ok |-> TRUE, host |-> dial.hosts[k]]
       /\ dial.pc = "done" =>
             \/ /\ dial.ret.ok
                /\ dial.log[Len(dial.log)].outcome = "ok"
             \/ /\ ~dial.ret.ok
                /\ Len(dial.log) = Len(dial.hosts)
                /\ dial.ret.kind = dial.log[Len(dial.log)].outcome

\* the third host of a list connected after two failures of different kinds
C19_Witness ==
    /\ op = "dial" /\ dial.pc = "done" /\ dial.ret.ok
    /\ Len(dial.log) = 3
    /\ dial.log[1].outcome # dial.log[2].outcome
    /\ dial.log[3].at = 4

\* every default host failed, the last one differently from the first
C19_WitnessDefaultsFail ==
    /\ op = "dial" /\ arg = <<>> /\ dial.pc = "done"
    /\ Len(dial.log) = 12
    /\ dial.log[1].outcome = "Io"
    /\ dial.ret = [ok |-> FALSE, kind |-> "Timeout"]

\* the positions of the host list whose probe connected
Connected == { i \in DOMAIN probe.out : probe.out[i].st = "some" }

Entry(i) == [host |-> probe.hosts[i], duration |-> probe.out[i].duration]

\* C20: whatever the order in which its probes complete, fast_hosts returns
\* exactly one entry per listed host whose connect succeeded, none for a
\* host whose connect failed, in non-decreasing order of duration.
C20_FastHostsSortedConnected ==
    (op = "fast_hosts" /\ probe.pc = "done") =>
       /\ Len(probe.ret) = Cardinality(Connected)
       /\ \A i \in Connected :
             Cardinality({ k \in 1..Len(probe.ret) : probe.ret[k] = Entry(i) })
                = Cardinality({ j \in Connected : Entry(j) = Entry(i) })
       /\ \A k \in 1..(Len(probe.ret) - 1) :
             probe.ret[k].duration <= probe.ret[k + 1].duration

\* three probes: the last listed completed first and fastest, the second
\* failed, the first was slowest
C20_Witness ==
    /\ op = "fast_hosts" /\ probe.pc = "done"
    /\ Len(probe.hosts) = 3
    /\ probe.order = <<3, 2, 1>>
    /\ probe.out[2].st = "none"
    /\ Len(probe.ret) = 2
    /\ probe.ret[1] = Entry(3) /\ probe.ret[2] = Entry(1)
    /\ probe.ret[1].duration < probe.ret[2].duration

-----------------------------------------------------------------------------
(* Properties of the response decoders and the symbol check (MessageSpec) *)

\* the unmatched_raw field of record i (1-based) of a CallAuction payload
RawOf(data, i) ==
    AsI16(bytes_to_u16_le(SubSeq(data, 2 + 16 * (i - 1) + 11, 2 + 16 * (i - 1) + 12)))

\* the payload holds every record its header declares
AuctionComplete(data) ==
    Len(data) >= 2 /\ Len(data) >= 2 + 16 * bytes_to_u16_le(SubSeq(data, 1, 2))

\* C26: whatever the 16 bits of unmatched_raw are, the decoded record has flag
\* -1 and unmatched = -unmatched_raw when unmatched_raw is negative as an i16,
\* flag +1 and unmatched = unmatched_raw otherwise, so unmatched is never
\* negative, 0x8000 included.
C26_UnmatchedNeverNegative ==
    (op = "call_auction" /\ AuctionComplete(arg.data)) =>
      /\ IsOk(ret)
      /\ \A i \in 1..Len(ret.val.list) :
           LET raw == RawOf(arg.data, i)
               row == ret.val.list[i]
           IN  /\ raw < 0 => row.flag = -1 /\ row.unmatched = -raw
               /\ raw >= 0 => row.flag = 1 /\ row.unmatched = raw
               /\ row.unmatched >= 0

\* C26 for every raw value but 0x8000
C26_ExceptMostNegative ==
    (op = "call_auction" /\ AuctionComplete(arg.data)
       /\ \A i \in 1..bytes_to_u16_le(SubSeq(arg.data, 1, 2)) : RawOf(arg.data, i) # -32768) =>
      /\ IsOk(ret)
      /\ Len(ret.val.list) = bytes_to_u16_le(SubSeq(arg.data, 1, 2))
      /\ \A i \in 1..Len(ret.val.list) :
           LET raw == RawOf(arg.data, i)
               row == ret.val.list[i]
           IN  /\ raw < 0 => row.flag = -1 /\ row.unmatched = -raw
               /\ raw >= 0 => row.flag = 1 /\ row.unmatched = raw
               /\ row.unmatched >= 0

\* the close of the record before row i of a decoded Kline list, 0 before the
\* first
PrevClose(list, i) == IF i = 1 THEN 0 ELSE list[i - 1].close

\* C25: in every row KlineMsg::decode_response produces, `last` is the
\* previous close (0 for the first record, otherwise the close of the record
\* before it), so that open = last + openD, close = last + openD + closeD,
\* high = last + openD + highD and low = last + openD + lowD.
C25_LastIsPreviousClose ==
    (op = "kline" /\ IsOk(ret)) =>
      \A i \in 1..Len(ret.val.list) :
        LET row == ret.val.list[i]
            s == arg.shapes[i]
        IN  /\ row.last = PrevClose(ret.val.list, i)
            /\ row.open = row.last + s[1].diff
            /\ row.close = row.last + s[1].diff + s[2].diff
            /\ row.high = row.last + s[1].diff + s[3].diff
            /\ row.low = row.last + s[1].diff + s[4].diff

\* what holds of the rows: the four prices are rebuilt from the previous
\* close, and `last` is the row's own close
C25_LastIsOwnClose ==
    (op = "kline" /\ IsOk(ret)) =>
      \A i \in 1..Len(ret.val.list) :
        LET row == ret.val.list[i]
            s == arg.shapes[i]
            prev == PrevClose(ret.val.list, i)
        IN  /\ row.last = row.close
            /\ row.open = prev + s[1].diff
            /\ row.close = prev + s[1].diff + s[2].diff
            /\ row.high = prev + s[1].diff + s[3].diff
            /\ row.low = prev + s[1].diff + s[4].diff

DigitVal(ch) == CHOOSE d \in 0..9 : DigitChars[d + 1] = ch

RECURSIVE Number(_)
\* the number a sequence of decimal digits writes
Number(chars) ==
    IF chars = <<>> THEN 0
    ELSE 10 * Number(SubSeq(chars, 1, Len(chars) - 1)) + DigitVal(chars[Len(chars)])

\* the minutes since midnight that a time "HH:MM" names
MinutesOf(t) ==
    60 * Number(SubSeq(t, 1, Len(t) - 3)) + Number(SubSeq(t, Len(t) - 1, Len(t)))

\* the time of sample i (0-based) of a minute line, in minutes since midnight
ClaimedMinute(i) ==
    IF i < 120 THEN 9 * 60 + 30 + (i + 1) ELSE 13 * 60 + (i - 119)

RECURSIVE PartSum(_, _)
\* the sum of the price differences of the first m samples of pattern p
PartSum(p, m) ==
    IF m = 0 THEN 0 ELSE PartSum(p, m - 1) + MinuteShapes[p[m]][1].diff

\* the sum of the price differences of the first i samples of a payload drawn
\* with pattern p
RunningSum(p, i) == (i \div Len(p)) * PartSum(p, Len(p)) + PartSum(p, i % Len(p))

\* the samples of a minute payload drawn as input that are whole in it
WholeSamples(a) ==
    LET fit == { w \in 0..a.held : /\ w >= a.held - a.drop
                                   /\ 6 + Len(MinuteBody(a.pattern, w)) <= Len(a.data) }
    IN  CHOOSE w \in fit : \A v \in fit : v <= w

\* the decoded minute line is the one the header count and the samples of the
\* payload determine
MinuteLineAsClaimed ==
    LET n == bytes_to_u16_le(SubSeq(arg.data, 1, 2))
    IN  /\ IsOk(ret)
        /\ Len(ret.val.list) = n
        /\ \A i \in 0..(n - 1) :
             LET t == ret.val.list[i + 1].time
             IN  /\ Len(t) >= 5 /\ t[Len(t) - 2] = ":"
                 /\ MinutesOf(t) = ClaimedMinute(i)
        /\ \A i \in 1..(n - 1) :
             MinutesOf(ret.val.list[i].time) < MinutesOf(ret.val.list[i + 1].time)
        /\ \A i \in 1..n :
             i <= WholeSamples(arg) =>
               ret.val.list[i].price = 10 * RunningSum(arg.pattern, i)

\* C23: decoding a Minute/HistoryMinute response with header count n yields
\* exactly n samples with strictly increasing times, sample i (0-based) at
\* 09:30 + (i+1) minutes for i < 120 and at 13:00 + (i-119) minutes from 120
\* on (index 119 is 11:30, index 120 is 13:01), each with a price of 10 times
\* the running sum of the price differences read so far.
C23_MinuteTimesAndPrices ==
    (op = "minute" /\ Len(arg.data) >= 6) => MinuteLineAsClaimed

\* C23 for the decodes that return
C23_UnlessAborted ==
    (op = "minute" /\ Len(arg.data) >= 6 /\ ~Aborts(ret)) => MinuteLineAsClaimed

\* the records of a Kline payload drawn as input that are whole in it
KlineWhole(a) == IF a.drop = 0 THEN Len(a.shapes) ELSE Len(a.shapes) - 1

\* the payload ends before the records its header declares
Truncated ==
    IF arg.tag = "call_auction" THEN ~AuctionComplete(arg.data)
    ELSE IF arg.tag = "kline"
    THEN Len(arg.data) < 2 \/ KlineWhole(arg) < bytes_to_u16_le(SubSeq(arg.data, 1, 2))
    ELSE Len(arg.data) < 6 \/ WholeSamples(arg) < bytes_to_u16_le(SubSeq(arg.data, 1, 2))

\* C21: a message decoder returns a message-decode error when the payload
\* ends before the declared count of records has been read in full; it never
\* returns Ok with records built from bytes the payload does not hold, and it
\* never aborts abnormally.
C21_TruncatedPayloadIsAnError ==
    op \in {"call_auction", "kline", "minute"} =>
      /\ ~Aborts(ret)
      /\ Truncated => ret = Err("InsufficientData")

\* the decoders with a length check before each fixed-width read report a
\* truncated payload whenever they return
C21_CheckedDecodersReportTruncation ==
    (op \in {"call_auction", "kline"} /\ Truncated /\ ~Aborts(ret))
      => ret = Err("InsufficientData")

\* the minute decoder returns Ok with as many samples as the header declares
\* from a payload that holds fewer
C21_MinutePadsTruncatedPayload ==
    (op = "minute" /\ Len(arg.data) >= 6 /\ ~Aborts(ret))
      => IsOk(ret) /\ Len(ret.val.list) = bytes_to_u16_le(SubSeq(arg.data, 1, 2))

\* the lower-cased symbol is a two-letter exchange prefix and six characters
ValidSymbol(code) ==
    /\ Len(code) = 8
    /\ SubSeq(to_lowercase(code), 1, 2) \in ExchangePrefixes

\* C22: a symbol-taking request is encoded and sent only when the lower-cased
\* symbol is a valid two-letter exchange prefix (sz, sh or bj) followed by
\* exactly six code characters; a symbol with no valid prefix or of the wrong
\* length is rejected with an invalid-code error and nothing is written to
\* the stream.
C22_OnlyValidSymbolsAreSent ==
    /\ (op = "kline_request" /\ arg.count <= KlineRequestMax) =>
         /\ IsOk(ret) => ValidSymbol(arg.code)
         /\ ~ValidSymbol(arg.code) => ret = Err("InvalidCode")
    /\ (op = "get_kline" /\ arg.count <= KlineRequestMax) =>
         /\ ret.frame # <<>> => ValidSymbol(arg.code)
         /\ ~ValidSymbol(arg.code) =>
              ret.returned = Err("InvalidCode") /\ ret.frame = <<>>

\* what the check does guarantee of a request that is built: a prefix that
\* names an exchange and at least six more bytes; and a request that is not
\* built is not written
C22_PrefixAndAtLeastSixBytes ==
    /\ (op = "kline_request" /\ IsOk(ret)) =>
         LET lower == to_lowercase(arg.code)
         IN  /\ SubSeq(lower, 1, 2) \in ExchangePrefixes
             /\ ByteLen(lower) >= 8
             /\ ret.val.data[1] = ExchangeByte(SubSeq(lower, 1, 2))
    /\ op = "get_kline" => (ret.frame = <<>>) # (ret.returned = <<>>)

-----------------------------------------------------------------------------
(* Properties of the connection layer (Spec, FairSpec) *)

InCall(p) == pc[p] \in {"write", "read"}

\* the id bytes of a request frame and of a response frame, read off directly
ReqIdBytes(bytes) == SubSeq(bytes, 2, 5)
RespIdBytes(bytes) == SubSeq(bytes, 6, 9)

\* the bytes read are one whole, well-formed, uncompressed response frame
WholeFrame(b) ==
    /\ ~RespShort(b) /\ ~RespBadPrefix(b) /\ ~RespUnknownType(b)
    /\ Len(b) = 16 + Le16(b, 13)
    /\ Le16(b, 13) = Le16(b, 15)

\* C1: send_frame returns Ok(response) only when the response's msg_id is the
\* id it stamped on the request it wrote; a response with any other id makes
\* the call fail with the mismatch error, and no response is returned;
\* whatever calls came before on the same client.
C1_OkOnlyForOwnId ==
    \A c \in Callers :
      pc[c] = "done" =>
        /\ result[c].ok =>
             /\ \E i \in 2..Len(wire) : wire[i] = sent[c]
             /\ Len(rbuf[c]) >= 16
             /\ RespIdBytes(rbuf[c]) = ReqIdBytes(sent[c])
             /\ result[c].val.msg_id = req[c].msg_id
             /\ ReqIdBytes(sent[c]) = u32_to_bytes_le(req[c].msg_id)
        /\ (WholeFrame(rbuf[c]) /\ RespIdBytes(rbuf[c]) # ReqIdBytes(sent[c]))
             => result[c] = [ok |-> FALSE, kind |-> "Other", err |-> "IdMismatch"]

\* a call that followed a timed-out one has read the reply to the earlier
\* request and failed with the mismatch error
C1_Witness ==
    \E c \in Callers :
      /\ pc[c] = "done" /\ calls = 2 /\ Len(wire) = 3
      /\ sent[c] = wire[3]
      /\ Len(rbuf[c]) >= 16
      /\ RespIdBytes(rbuf[c]) = ReqIdBytes(wire[2])
      /\ result[c] = [ok |-> FALSE, kind |-> "Other", err |-> "IdMismatch"]

\* C2: the section "write the request, read the whole response" of one call
\* excludes that of every other call: the tasks inside it hold the stream
\* lock, only the holder writes to or reads from the stream, and with a
\* server that answers in order, at once and truthfully every caller reads
\* the response to its own request.
C2_Inv ==
    /\ \A p, q \in Procs : (InCall(p) /\ InCall(q)) => p = q
    /\ \A p \in Procs : InCall(p) => lock = p
    /\ lock # NoProc => InCall(lock)
    /\ faults = 0 =>
         \A c \in Callers :
           pc[c] = "done" =>
             /\ result[c].ok
             /\ RespIdBytes(rbuf[c]) = ReqIdBytes(sent[c])

C2_StreamTouchedByHolderOnly ==
    (wire' # wire \/ Len(inbox') < Len(inbox)) =>
       /\ lock # NoProc /\ InCall(lock)
       /\ \A q \in Procs \ {lock} :
            pc'[q] = pc[q] /\ rbuf'[q] = rbuf[q] /\ sent'[q] = sent[q]

C2_MutualExclusion == [] C2_Inv /\ [][C2_StreamTouchedByHolderOnly]_vars

\* one caller is reading its response while the other waits for the stream
C2_Witness ==
    \E c, d \in Callers :
      c # d /\ pc[c] = "read" /\ Len(rbuf[c]) > 0 /\ pc[d] = "lock"

\* C3: no two request frames written by send_frame on one connection carry
\* the same correlation id, for sequential and concurrent callers; every id
\* comes from one increment of the connection's counter, which starts at 0.
C3_DistinctIds ==
    /\ \A i, j \in 2..Len(wire) :
         i # j => ReqIdBytes(wire[i]) # ReqIdBytes(wire[j])
    /\ \A i \in 2..Len(wire) :
         /\ Le16(wire[i], 4) = 0
         /\ Le16(wire[i], 2) >= 1 /\ Le16(wire[i], 2) <= msg_id[2]
    /\ calls = 0 => msg_id = <<0, 0>>

\* two calls that overlapped have both written their frames
C3_Witness ==
    /\ ~solo /\ Len(wire) = 3
    /\ ReqIdBytes(wire[2]) # ReqIdBytes(wire[3])

\* C4 as stated: after the handshake the first request sent by an API method
\* (get_count) carries correlation id 1 and the k-th sequential request
\* carries id k, the counter being incremented once per request.
C4_KthRequestCarriesK ==
    (solo /\ \A i \in 2..Len(wire) : Le16(wire[i], 11) = 1102) =>
       \A k \in 1..(Len(wire) - 1) :
          /\ Le16(wire[k + 1], 2) = k
          /\ Le16(wire[k + 1], 4) = 0

\* the handshake frame: 0C 01 00 00 00 01 03 00 03 00 0D 00 01
HandshakeBytes == <<12, 1, 0, 0, 0, 1, 3, 0, 3, 0, 13, 0, 1>>

C5_Inv ==
    /\ Len(wire) >= 1 => wire[1] = HandshakeBytes
    /\ pc[0] = "ready" =>
         /\ Len(wire) >= 1 /\ sent[0] = HandshakeBytes
         /\ result[0].ok
         /\ Len(rbuf[0]) >= 16 /\ ~RespBadPrefix(rbuf[0])
         /\ ~RespUnknownType(rbuf[0]) /\ Len(rbuf[0]) = 16 + Le16(rbuf[0], 13)
    /\ pc[0] # "ready" =>
         /\ \A c \in Callers : pc[c] = "idle"
         /\ Len(wire) <= 1
         /\ calls = 0
    /\ calls = 0 => msg_id = <<0, 0>>
    /\ pc[0] = "failed" => ~result[0].ok /\ result[0].kind # "none"

\* C5: connect returns a Client only after the Connect request (id 1,
\* payload 01) has gone out as the first frame and one whole response frame
\* has been read; the handshake leaves the id counter at 0; when the
\* handshake fails connect returns the error and no Client, for good, so no
\* request ever precedes the handshake.
C5_HandshakeFirst == [] C5_Inv /\ [][pc[0] = "failed" => pc'[0] = "failed"]_vars

\* the Client has just been handed out
C5_Witness ==
    /\ pc[0] = "ready" /\ calls = 0 /\ lock = NoProc
    /\ wire = <<HandshakeBytes>> /\ msg_id = <<0, 0>>

C6_Inv ==
    \A p \in Procs :
      /\ (pc[p] \in {"done", "failed"} /\ ~result[p].ok /\ result[p].kind = "Timeout")
            => ReadNeed(rbuf[p]) > 0
      /\ (pc[p] \in {"done", "ready"} /\ result[p].ok) => ReadNeed(rbuf[p]) = 0

\* a read that ends while nothing has arrived and the stream is open ends
\* because the timer ran out
C6_ExpiryIsTimeout ==
    \A p \in Procs :
      (pc[p] = "read" /\ pc'[p] # "read" /\ inbox = <<>> /\ ~closed) =>
         /\ elapsed[p]
         /\ ReadNeed(rbuf[p]) > 0
         /\ ~result'[p].ok
         /\ result'[p].kind = "Timeout"

\* C6: when the whole response frame (header and payload) has not arrived
\* by the time the read timeout runs out, the call fails with the Timeout
\* error kind, not an I/O, protocol or other error, and returns no response.
C6_TimeoutKind == [] C6_Inv /\ [][C6_ExpiryIsTimeout]_vars

\* a call timed out after the header of its response had arrived
C6_Witness ==
    \E c \in Callers :
      /\ pc[c] = "done"
      /\ result[c] = [ok |-> FALSE, kind |-> "Timeout", err |-> "Elapsed"]
      /\ Len(rbuf[c]) = 16 /\ srv_due # <<>>

\* a < b for two u32 values
U32Less(a, b) == a[1] < b[1] \/ (a[1] = b[1] /\ a[2] < b[2])

\* the frames on the wire that send_frame wrote (all but the handshake)
SendFrameWrites ==
    { i \in 1..Len(wire) : ReqType(wire[i]) # as_u16("Connect") }

WireIdsIncrease ==
    \A i, j \in SendFrameWrites :
       i < j => U32Less(ReqId(wire[i]), ReqId(wire[j]))

\* C24: the correlation id of a request is drawn while its caller holds the
\* stream lock, so for every interleaving of concurrent callers the request
\* frames appear on the wire in strictly increasing order of correlation id.
C24_WireIdsIncrease == WireIdsIncrease

\* what the code gives: the order on the wire is the order of the ids as
\* long as no two calls overlap
C24_WhenCallsDoNotOverlap == solo => WireIdsIncrease

\* C29: the stream lock is released on every way a call can end, so a failed
\* call never leaves the connection locked: with several callers on one
\* Client, every caller that waits for the stream eventually acquires it,
\* provided each call that holds it terminates.
C29_LockReleasedOnEveryExit ==
    /\ [](lock # NoProc => InCall(lock))
    /\ (\A q \in Procs : []<>(~InCall(q)))
          => \A p \in Procs : (pc[p] = "lock") ~> InCall(p)

\* a caller holds the stream after the call of the other caller has failed
C29_Witness ==
    \E c, d \in Callers :
       /\ c # d
       /\ lock = c /\ pc[c] = "read"
       /\ pc[d] = "done" /\ ~result[d].ok
       /\ sent[d] # <<>>

\* the position on the wire of the request caller c wrote
ReqPos(c) == CHOOSE k \in 1..Len(wire) : wire[k] = sent[c]

\* caller d's call has timed out before any byte of its response arrived
TimedOutUnread(d) ==
    /\ pc[d] = "done" /\ result[d] = TimeoutError /\ rbuf[d] = <<>>
    /\ sent[d] # <<>>

\* the server has delivered the response to d's request
Delivered(d) == srv_read >= ReqPos(d) /\ srv_due = <<>>

\* caller c has finished a call whose request followed that of d
FinishedAfter(d, c) ==
    /\ c # d /\ pc[c] = "done" /\ sent[c] # <<>>
    /\ ReqPos(c) > ReqPos(d)

IdMismatch == [ok |-> FALSE, kind |-> "Other", err |-> "IdMismatch"]

C7_EveryCallTerminates ==
    \A p \in Procs : InCall(p) ~> ~InCall(p)

\* the part of C7 the timed read gives: a call whose request has been written
\* returns
C7_ReadTerminates ==
    \A p \in Procs : (pc[p] = "read") ~> (pc[p] # "read")

=============================================================================
